---- MODULE Spec2Model ----
(***************************************************************************)
(* A model of the postcss-ruler plugin (src/index.js): the numeric         *)
(* formatter, the clamp calculator, the scale compiler, the parameter      *)
(* extraction of the two at-rules, the utility expander, the declaration   *)
(* rewriter, and the plugin instance whose closure holds the scale         *)
(* registry while the host calls its visitors in document order.           *)
(*                                                                         *)
(* Representation of JavaScript values.                                    *)
(*  - A JS string that the code inspects character by character (a token   *)
(*    value, a pair name, a label) is a sequence of lexemes: every         *)
(*    punctuation character and every digit is a lexeme of its own, and a  *)
(*    run of letters is one lexeme, always cut the same way, so two such   *)
(*    sequences are equal exactly when the JS strings are.  Str joins a    *)
(*    sequence into the string the plugin writes to the stylesheet.        *)
(*  - A JS number is an integer, or NaN.  The quotients calculateClamp     *)
(*    forms are kept exact as numerator and denominator and rounded where  *)
(*    the code rounds (toFixed(4)).                                        *)
(***************************************************************************)
EXTENDS Integers, Sequences, FiniteSets, TLC

(***************************************************************************)
(* Numbers                                                                 *)
(***************************************************************************)

\* The value NaN of a JS number (Number("abc")); never an operand of
\* arithmetic in this module: every use is guarded by IsNaN.
NaN == -1000000

IsNaN(x) == x = NaN

Abs(x) == IF x < 0 THEN -x ELSE x

\* `${x}` of a JS number that is an integer or NaN.
NumStr(x) == IF IsNaN(x) THEN "NaN" ELSE ToString(x)

\* The integer n for which n / 10^4 is closest to num / den (den > 0), the
\* one further from zero on a tie: Number.prototype.toFixed(4)'s choice.
RoundTenThousandths(num, den) ==
    LET a == Abs(num) * 10000
        q == a \div den
        r == a % den
        n == IF 2 * r >= den THEN q + 1 ELSE q
    IN  IF num < 0 THEN -n ELSE n

\* Four decimal digits of f in 0..9999, leading zeros kept.
Pad4(f) ==
    IF f < 10 THEN "000" \o ToString(f)
    ELSE IF f < 100 THEN "00" \o ToString(f)
    ELSE IF f < 1000 THEN "0" \o ToString(f)
    ELSE ToString(f)

\* The decimal digits of f / 10^4 (f in 1..9999) without trailing zeros.
Frac(f) ==
    IF f % 1000 = 0 THEN ToString(f \div 1000)
    ELSE IF f % 100 = 0 THEN
        (IF f < 1000 THEN "0" ELSE "") \o ToString(f \div 100)
    ELSE IF f % 10 = 0 THEN
        (IF f < 100 THEN "00" ELSE IF f < 1000 THEN "0" ELSE "")
            \o ToString(f \div 10)
    ELSE Pad4(f)

\* (num / den).toFixed(4): always four decimals; the sign is that of the
\* number, also when it rounds to zero ("-0.0000").
ToFixed4(num, den) ==
    LET n == Abs(RoundTenThousandths(num, den))
    IN  (IF num < 0 THEN "-" ELSE "")
            \o ToString(n \div 10000) \o "." \o Pad4(n % 10000)

\* `${parseFloat(s)}` for s = (num / den).toFixed(4): the shortest decimal,
\* no trailing zeros, no trailing point, "0" for -0.
ParseFloatStr(num, den) ==
    LET t == RoundTenThousandths(num, den)
        n == Abs(t)
    IN  (IF t < 0 THEN "-" ELSE "")
            \o ToString(n \div 10000)
            \o (IF n % 10000 = 0 THEN "" ELSE "." \o Frac(n % 10000))

(***************************************************************************)
(* Numeric formatter and clamp calculator                                  *)
(***************************************************************************)

\* pxToRem of the quotient num / den (den > 0).
pxToRemQ(num, den) == ParseFloatStr(num, 16 * den) \o "rem"

pxToRem(px) == IF IsNaN(px) THEN "NaNrem" ELSE pxToRemQ(px, 1)

\* x.toFixed(4) for x = sign * m * 10^e with m in 1..9 and e >= 21: from
\* 10^21 on toFixed returns ToString(x), which is in exponent notation.
ToFixedLarge(sign, m, e) ==
    (IF sign < 0 THEN "-" ELSE "") \o ToString(m) \o "e+" \o ToString(e)

\* pxToRem(16 * x) for such an x: parseFloat reads the exponent notation
\* back, and the template literal writes the number the same way.
pxToRemLarge(sign, m, e) == ToFixedLarge(sign, m, e) \o "rem"

\* A handler's or function's outcome: a value, or the thrown Error's message.
Ok(v) == [ok |-> TRUE, value |-> v]
Throw(msg) == [ok |-> FALSE, error |-> msg]

\* validateMinMax: the message thrown, or "" when nothing is thrown.
\* NaN >= x and x >= NaN are false.
validateMinMax(min, max, context) ==
    IF ~IsNaN(min) /\ ~IsNaN(max) /\ min >= max
    THEN "[postcss-ruler] Invalid " \o context \o ": min (" \o NumStr(min)
            \o ") must be less than max (" \o NumStr(max) \o ")"
    ELSE ""

\* A clamp() expression whose slope loses its trailing zeros.
clampExprTrimmed(minSize, maxSize, minWidth, maxWidth) ==
    IF IsNaN(minWidth) \/ IsNaN(maxWidth)
    THEN "clamp(" \o pxToRem(minSize) \o ", NaNvw + NaNrem, "
            \o pxToRem(maxSize) \o ")"
    ELSE "clamp(" \o pxToRem(minSize) \o ", "
            \o ParseFloatStr(100 * (maxSize - minSize), maxWidth - minWidth)
            \o "vw + "
            \o pxToRemQ(minSize * (maxWidth - minWidth)
                            - minWidth * (maxSize - minSize),
                        maxWidth - minWidth)
            \o ", " \o pxToRem(maxSize) \o ")"

\* The clamp() expression for valid sizes and widths.
clampExpr(minSize, maxSize, minWidth, maxWidth) ==
    IF IsNaN(minWidth) \/ IsNaN(maxWidth)
    THEN "clamp(" \o pxToRem(minSize) \o ", NaNvw + NaNrem, "
            \o pxToRem(maxSize) \o ")"
    ELSE LET ds == maxSize - minSize
             dw == maxWidth - minWidth
         IN  "clamp(" \o pxToRem(minSize) \o ", "
                \o ToFixed4(100 * ds, dw) \o "vw + "
                \o pxToRemQ(minSize * dw - minWidth * ds, dw) \o ", "
                \o pxToRem(maxSize) \o ")"

\* A calculator without the early return for equal sizes.
calculateClampNoCollapse(minSize, maxSize, minWidth, maxWidth) ==
    IF validateMinMax(minSize, maxSize, "size") # ""
        THEN Throw(validateMinMax(minSize, maxSize, "size"))
    ELSE IF validateMinMax(minWidth, maxWidth, "width") # ""
        THEN Throw(validateMinMax(minWidth, maxWidth, "width"))
    ELSE Ok(clampExpr(minSize, maxSize, minWidth, maxWidth))

\* A calculator that validates the widths before the sizes.
calculateClampWidthFirst(minSize, maxSize, minWidth, maxWidth) ==
    IF minSize = maxSize THEN Ok(pxToRem(minSize))
    ELSE IF validateMinMax(minWidth, maxWidth, "width") # ""
        THEN Throw(validateMinMax(minWidth, maxWidth, "width"))
    ELSE IF validateMinMax(minSize, maxSize, "size") # ""
        THEN Throw(validateMinMax(minSize, maxSize, "size"))
    ELSE Ok(clampExpr(minSize, maxSize, minWidth, maxWidth))

calculateClamp(minSize, maxSize, minWidth, maxWidth) ==
    IF minSize = maxSize THEN Ok(pxToRem(minSize))
    ELSE IF validateMinMax(minSize, maxSize, "size") # ""
        THEN Throw(validateMinMax(minSize, maxSize, "size"))
    ELSE IF validateMinMax(minWidth, maxWidth, "width") # ""
        THEN Throw(validateMinMax(minWidth, maxWidth, "width"))
    ELSE Ok(clampExpr(minSize, maxSize, minWidth, maxWidth))

(***************************************************************************)
(* Strings as lexeme sequences                                             *)
(***************************************************************************)

RECURSIVE Str(_)
\* The JS string a lexeme sequence stands for.
Str(s) == IF s = <<>> THEN "" ELSE Head(s) \o Str(Tail(s))

\* s.replace(/[<set>]/g, ""): every character of the set removed.
RemoveAll(s, set) == SelectSeq(s, LAMBDA c : c \notin set)

RECURSIVE RemoveFirst(_, _)
\* s.replace(c, ""): the first occurrence of the character removed.
RemoveFirst(s, c) ==
    IF s = <<>> THEN <<>>
    ELSE IF Head(s) = c THEN Tail(s)
    ELSE <<Head(s)>> \o RemoveFirst(Tail(s), c)

\* s.includes(c)
Includes(s, c) == \E i \in 1..Len(s) : s[i] = c

Digits == {"0", "1", "2", "3", "4", "5", "6", "7", "8", "9"}

DigitVal(c) ==
    CASE c = "0" -> 0 [] c = "1" -> 1 [] c = "2" -> 2 [] c = "3" -> 3
      [] c = "4" -> 4 [] c = "5" -> 5 [] c = "6" -> 6 [] c = "7" -> 7
      [] c = "8" -> 8 [] c = "9" -> 9

RECURSIVE DecimalVal(_, _)
DecimalVal(s, acc) ==
    IF s = <<>> THEN acc ELSE DecimalVal(Tail(s), 10 * acc + DigitVal(Head(s)))

AllDigits(s) == s # <<>> /\ \A i \in 1..Len(s) : s[i] \in Digits

\* Number(s) for the strings of this model: "" is 0, a run of digits with an
\* optional leading minus sign is its decimal value, anything else is NaN.
Number(s) ==
    IF s = <<>> THEN 0
    ELSE IF AllDigits(s) THEN DecimalVal(s, 0)
    ELSE IF Head(s) = "-" /\ AllDigits(Tail(s)) THEN -DecimalVal(Tail(s), 0)
    ELSE NaN

(***************************************************************************)
(* A JS object used as a map from strings: its own keys in the order       *)
(* Object.entries / Object.keys report them (integer-index keys first, in  *)
(* ascending numeric order, then the other keys in insertion order).       *)
(***************************************************************************)

\* A canonical array index: digits, no leading zero, at most 2^32 - 2.  Keys
\* of ten digits or more are outside this model: every number of up to nine
\* digits is an array index.
IsArrayIndex(k) ==
    /\ AllDigits(k)
    /\ Len(k) <= 9
    /\ (Len(k) = 1 \/ k[1] # "0")

HasKey(obj, k) == \E i \in 1..Len(obj) : obj[i].name = k

\* Where a new key k enters the own-key order of obj.
InsertAt(obj, k) ==
    IF IsArrayIndex(k)
    THEN 1 + Cardinality({i \in 1..Len(obj) :
                /\ IsArrayIndex(obj[i].name)
                /\ DecimalVal(obj[i].name, 0) < DecimalVal(k, 0)})
    ELSE Len(obj) + 1

\* obj[k] = v
ObjSet(obj, k, v) ==
    IF HasKey(obj, k)
    THEN [i \in 1..Len(obj) |->
            IF obj[i].name = k THEN [name |-> k, values |-> v] ELSE obj[i]]
    ELSE LET at == InsertAt(obj, k)
         IN  SubSeq(obj, 1, at - 1) \o <<[name |-> k, values |-> v]>>
                \o SubSeq(obj, at, Len(obj))

(***************************************************************************)
(* Scale compiler                                                          *)
(***************************************************************************)

RECURSIVE baseClamps(_, _, _, _)
\* pairs.map(...) of generateClamps from pair k on: the entries, or the
\* first error thrown.
baseClamps(pairs, k, minWidth, maxWidth) ==
    IF k > Len(pairs) THEN Ok(<<>>)
    ELSE LET c == calculateClamp(pairs[k].values[1], pairs[k].values[2],
                                 minWidth, maxWidth)
         IN  IF ~c.ok THEN c
             ELSE LET rest == baseClamps(pairs, k + 1, minWidth, maxWidth)
                  IN  IF ~rest.ok THEN rest
                      ELSE Ok(<<[label |-> pairs[k].name, clamp |-> c.value]>>
                                \o rest.value)

\* A sort that puts the later pair first when the minimum sizes are equal.
sortedByMinLaterFirst(p, q) ==
    IF p.values[1] - q.values[1] >= 0 THEN <<q, p>> ELSE <<p, q>>

\* [pairs[i], pairs[j]].sort((a, b) => a.values[0] - b.values[0]): a stable
\* sort of two elements, swapped only when the comparator is positive.
sortedByMin(p, q) ==
    IF p.values[1] - q.values[1] > 0 THEN <<q, p>> ELSE <<p, q>>

\* The cross entry of pairs[i] and pairs[j], or the error thrown.
crossPair(pairs, i, j, minWidth, maxWidth) ==
    LET smaller == sortedByMin(pairs[i], pairs[j])[1]
        larger == sortedByMin(pairs[i], pairs[j])[2]
        c == calculateClamp(smaller.values[1], larger.values[2],
                            minWidth, maxWidth)
    IN  IF ~c.ok THEN c
        ELSE Ok([label |-> smaller.name \o <<"-">> \o larger.name,
                 clamp |-> c.value])

RECURSIVE crossPairs(_, _, _, _, _)
\* The two nested loops of generateClamps from (i, j) on.
crossPairs(pairs, i, j, minWidth, maxWidth) ==
    IF i > Len(pairs) THEN Ok(<<>>)
    ELSE IF j > Len(pairs) THEN crossPairs(pairs, i + 1, i + 2, minWidth, maxWidth)
    ELSE LET c == crossPair(pairs, i, j, minWidth, maxWidth)
         IN  IF ~c.ok THEN c
             ELSE LET rest == crossPairs(pairs, i, j + 1, minWidth, maxWidth)
                  IN  IF ~rest.ok THEN rest
                      ELSE Ok(<<c.value>> \o rest.value)

\* A concatenation that puts the cross entries first.
withCrossPairsFirst(clampScales, cross) ==
    IF ~cross.ok THEN cross ELSE Ok(cross.value \o clampScales)

\* [...clampScales, ...crossPairs], or the error thrown while the cross
\* pairs were computed.
withCrossPairs(clampScales, cross) ==
    IF ~cross.ok THEN cross ELSE Ok(clampScales \o cross.value)

\* generateClamps once the base entries are computed (or have thrown).
generateClampsFrom(clampScales, pairs, minWidth, maxWidth, generateAllCrossPairs) ==
    IF ~clampScales.ok THEN clampScales
    ELSE IF generateAllCrossPairs
    THEN withCrossPairs(clampScales.value,
                        crossPairs(pairs, 1, 2, minWidth, maxWidth))
    ELSE clampScales

generateClamps(pairs, minWidth, maxWidth, generateAllCrossPairs) ==
    generateClampsFrom(baseClamps(pairs, 1, minWidth, maxWidth),
                       pairs, minWidth, maxWidth, generateAllCrossPairs)

(***************************************************************************)
(* Parameter extraction.  A token is a node of the external value parser   *)
(* that the handlers keep: its type and its value (a string token's value  *)
(* is the text between the quotes).                                        *)
(***************************************************************************)

Word(v) == [type |-> "word", value |-> v]
String(v) == [type |-> "string", value |-> v]

\* null, and a value that is not null.
Null == [isNull |-> TRUE]
Val(v) == [isNull |-> FALSE, v |-> v]

RECURSIVE parseAtRuleParamsStepOne(_, _, _)
\* A loop that looks at the value of a key again, as the next key.
parseAtRuleParamsStepOne(params, i, clampsParams) ==
    IF i > Len(params) THEN clampsParams
    ELSE IF i + 1 > Len(params)
        THEN parseAtRuleParamsStepOne(params, i + 1, clampsParams)
    ELSE LET key == params[i].value
             value == RemoveAll(params[i + 1].value, {":", ","})
         IN  IF key = <<"minWidth">>
             THEN parseAtRuleParamsStepOne(params, i + 1,
                    [clampsParams EXCEPT !.minWidth = Number(value)])
             ELSE IF key = <<"maxWidth">>
             THEN parseAtRuleParamsStepOne(params, i + 1,
                    [clampsParams EXCEPT !.maxWidth = Number(value)])
             ELSE IF key = <<"prefix">>
             THEN parseAtRuleParamsStepOne(params, i + 1,
                    [clampsParams EXCEPT
                        !.prefix = RemoveAll(value, {"'", "\""})])
             ELSE IF key = <<"generateAllCrossPairs">>
             THEN parseAtRuleParamsStepOne(params, i + 1,
                    [clampsParams EXCEPT
                        !.generateAllCrossPairs = (value = <<"true">>)])
             ELSE parseAtRuleParamsStepOne(params, i + 1, clampsParams)

RECURSIVE parseAtRuleParamsFrom(_, _, _)
\* The loop of parseAtRuleParams from index i on (i counts from 1).
parseAtRuleParamsFrom(params, i, clampsParams) ==
    IF i > Len(params) THEN clampsParams
    ELSE IF i + 1 > Len(params)
        THEN parseAtRuleParamsFrom(params, i + 1, clampsParams)
    ELSE LET key == params[i].value
             value == RemoveAll(params[i + 1].value, {":", ","})
         IN  IF key = <<"minWidth">>
             THEN parseAtRuleParamsFrom(params, i + 2,
                    [clampsParams EXCEPT !.minWidth = Number(value)])
             ELSE IF key = <<"maxWidth">>
             THEN parseAtRuleParamsFrom(params, i + 2,
                    [clampsParams EXCEPT !.maxWidth = Number(value)])
             ELSE IF key = <<"prefix">>
             THEN parseAtRuleParamsFrom(params, i + 2,
                    [clampsParams EXCEPT
                        !.prefix = RemoveAll(value, {"'", "\""})])
             ELSE IF key = <<"generateAllCrossPairs">>
             THEN parseAtRuleParamsFrom(params, i + 2,
                    [clampsParams EXCEPT
                        !.generateAllCrossPairs = (value = <<"true">>)])
             ELSE parseAtRuleParamsFrom(params, i + 1, clampsParams)

parseAtRuleParams(params, config) ==
    parseAtRuleParamsFrom(params, 1,
        [minWidth |-> config.minWidth,
         maxWidth |-> config.maxWidth,
         pairs |-> <<>>,
         prefix |-> <<"space">>,
         generateAllCrossPairs |-> config.generateAllCrossPairs])

\* params.findIndex((x) => x.value === "pairs"), counting from 1; 0 when
\* there is none.
pairsStartIndex(params) ==
    IF \E i \in 1..Len(params) : params[i].value = <<"pairs">>
    THEN CHOOSE i \in 1..Len(params) :
            /\ params[i].value = <<"pairs">>
            /\ \A k \in 1..(i - 1) : params[k].value # <<"pairs">>
    ELSE 0

\* The commit of extractPairs: pairs[currentName] = currentValues when a
\* name is current and holds exactly two values.
commitPair(pairs, currentName, currentValues) ==
    IF ~currentName.isNull /\ Len(currentValues) = 2
    THEN ObjSet(pairs, currentName.v, currentValues)
    ELSE pairs

\* A push after which the stored pair holds the latest two values.
pushAliasedSliding(pairs, currentName, currentValues, n) ==
    IF ~currentName.isNull /\ Len(currentValues) >= 2
    THEN ObjSet(pairs, currentName.v, <<currentValues[Len(currentValues)], n>>)
    ELSE pairs

\* currentValues.push(n): once the array holds two values it is the very
\* object stored as pairs[currentName], which grows with it.
pushAliased(pairs, currentName, currentValues, n) ==
    IF ~currentName.isNull /\ Len(currentValues) >= 2
    THEN ObjSet(pairs, currentName.v, Append(currentValues, n))
    ELSE pairs

RECURSIVE extractPairsFrom(_, _, _, _, _)
\* The loop of extractPairs from index i on.
extractPairsFrom(params, i, pairs, currentName, currentValues) ==
    IF i > Len(params) THEN pairs
    ELSE LET param == params[i]
             value == RemoveFirst(RemoveFirst(param.value, "["), "]")
         IN  IF value = <<>> \/ value = <<"[">> \/ value = <<"]">>
             THEN extractPairsFrom(params, i + 1, pairs,
                                   currentName, currentValues)
             ELSE IF param.type = "string"
             THEN extractPairsFrom(params, i + 1,
                    commitPair(pairs, currentName, currentValues),
                    Val(value), <<>>)
             ELSE IF IsNaN(Number(value))
             THEN extractPairsFrom(params, i + 1,
                    commitPair(pairs, currentName, currentValues),
                    currentName, currentValues)
             ELSE LET pushed == Append(currentValues, Number(value))
                  IN  extractPairsFrom(params, i + 1,
                        commitPair(
                            pushAliased(pairs, currentName, currentValues,
                                        Number(value)),
                            currentName, pushed),
                        currentName, pushed)

extractPairs(params) ==
    IF pairsStartIndex(params) = 0 THEN <<>>
    ELSE extractPairsFrom(params, pairsStartIndex(params) + 1,
                          <<>>, Null, <<>>)

\* A property parameter: one name, or an array of names.
PropString(v) == [isArray |-> FALSE, s |-> v]
PropArray(items) == [isArray |-> TRUE, items |-> items]

RECURSIVE arrayEnd(_, _)
\* The index at which the while loop of the property array stops: the first
\* "]" token at or after i, or one past the last token.
arrayEnd(params, i) ==
    IF i > Len(params) \/ params[i].value = <<"]">> THEN i
    ELSE arrayEnd(params, i + 1)

\* The values of the string tokens from index i up to (not including) j.
arrayValues(params, i, j) ==
    LET strings == SelectSeq(SubSeq(params, i, j - 1),
                             LAMBDA t : t.type = "string")
    IN  [k \in 1..Len(strings) |-> strings[k].value]

RECURSIVE parseUtilityParamsFrom(_, _, _)
\* The loop of parseUtilityParams from index i on.
parseUtilityParamsFrom(params, i, utilityParams) ==
    IF i > Len(params) THEN utilityParams
    ELSE IF i + 1 > Len(params)
        THEN parseUtilityParamsFrom(params, i + 1, utilityParams)
    ELSE LET key == params[i].value
             nextParam == params[i + 1]
             value == RemoveAll(nextParam.value, {":", ","})
             unquoted == RemoveAll(value, {"'", "\""})
         IN  IF key = <<"selector">>
             THEN parseUtilityParamsFrom(params, i + 2,
                    [utilityParams EXCEPT !.selector = Val(unquoted)])
             ELSE IF key = <<"scale">>
             THEN parseUtilityParamsFrom(params, i + 2,
                    [utilityParams EXCEPT !.scale = Val(unquoted)])
             ELSE IF key = <<"attribute">>
             THEN parseUtilityParamsFrom(params, i + 2,
                    [utilityParams EXCEPT !.attribute = Val(unquoted)])
             ELSE IF key = <<"property">>
             THEN IF nextParam.value = <<"[">>
                  THEN LET end == arrayEnd(params, i + 2)
                       IN  parseUtilityParamsFrom(params, end + 1,
                             [utilityParams EXCEPT !.property =
                                Val(PropArray(arrayValues(params, i + 2, end)))])
                  ELSE parseUtilityParamsFrom(params, i + 2,
                         [utilityParams EXCEPT
                            !.property = Val(PropString(unquoted))])
             ELSE IF key = <<"generateAllCrossPairs">>
             THEN parseUtilityParamsFrom(params, i + 2,
                    [utilityParams EXCEPT
                        !.generateAllCrossPairs = Val(value = <<"true">>)])
             ELSE IF key = <<"lowSpecificity">>
             THEN parseUtilityParamsFrom(params, i + 2,
                    [utilityParams EXCEPT
                        !.lowSpecificity = Val(value = <<"true">>)])
             ELSE parseUtilityParamsFrom(params, i + 1, utilityParams)

parseUtilityParams(params) ==
    parseUtilityParamsFrom(params, 1,
        [selector |-> Null,
         property |-> Null,
         scale |-> Null,
         generateAllCrossPairs |-> Null,
         attribute |-> Null,
         lowSpecificity |-> Null])

(***************************************************************************)
(* The scale registry: the object `scales` of the plugin's closure, as the *)
(* function from its own keys to the stored scales.                        *)
(***************************************************************************)

\* Names every object inherits from Object.prototype: scales[name] is
\* neither undefined nor a stored scale for them.
ObjectPrototypeKeys ==
    {"constructor", "toString", "valueOf", "hasOwnProperty", "__proto__"}

\* scales[name]: what the lookup yields.
scalesGet(registry, name) ==
    IF name \in DOMAIN registry
    THEN [kind |-> "scale", items |-> registry[name]]
    ELSE IF name \in ObjectPrototypeKeys THEN [kind |-> "inherited"]
    ELSE [kind |-> "undefined"]

\* scales[name] = clampScale
\* A registry that keeps the first definition of a prefix.
scalesSetKeepFirst(registry, name, clampScale) ==
    [k \in DOMAIN registry \cup {name} |->
        IF k \in DOMAIN registry THEN registry[k] ELSE clampScale]

scalesSet(registry, name, clampScale) ==
    [k \in DOMAIN registry \cup {name} |->
        IF k = name THEN clampScale ELSE registry[k]]

(***************************************************************************)
(* The two at-rule handlers                                                *)
(***************************************************************************)

\* The declarations that replace a scale at-rule.
scaleDecls(prefix, clampScale) ==
    [k \in 1..Len(clampScale) |->
        [prop |-> "--" \o Str(prefix) \o "-" \o Str(clampScale[k].label),
         value |-> clampScale[k].clamp]]

\* A handler that has emptied the prefix's entry when generateClamps throws.
storeScaleCleared(clampsParams, clampScale, registry) ==
    IF ~clampScale.ok
    THEN [result |-> clampScale,
          clampsParams |-> clampsParams,
          scales |-> scalesSet(registry, Str(clampsParams.prefix), <<>>)]
    ELSE [result |-> Ok(scaleDecls(clampsParams.prefix, clampScale.value)),
          clampsParams |-> clampsParams,
          scales |-> scalesSet(registry, Str(clampsParams.prefix),
                               clampScale.value)]

\* The end of processFluidAtRule: the scale is stored under its prefix and
\* the at-rule is replaced by the declarations; nothing is stored or
\* replaced when generateClamps threw.
storeScale(clampsParams, clampScale, registry) ==
    IF ~clampScale.ok
    THEN [result |-> clampScale,
          clampsParams |-> clampsParams,
          scales |-> registry]
    ELSE [result |-> Ok(scaleDecls(clampsParams.prefix, clampScale.value)),
          clampsParams |-> clampsParams,
          scales |-> scalesSet(registry, Str(clampsParams.prefix),
                               clampScale.value)]

\* A handler that compiles and stores whatever pairs it extracted.
compileScaleUnchecked(clampsParams, registry) ==
    storeScale(clampsParams,
               generateClamps(clampsParams.pairs,
                              clampsParams.minWidth,
                              clampsParams.maxWidth,
                              clampsParams.generateAllCrossPairs),
               registry)

\* processFluidAtRule from the extracted parameters on.
compileScale(clampsParams, registry) ==
    IF Len(clampsParams.pairs) = 0
    THEN [result |-> Throw("[postcss-ruler] No pairs defined in @ruler scale()"),
          clampsParams |-> clampsParams,
          scales |-> registry]
    ELSE storeScale(clampsParams,
                    generateClamps(clampsParams.pairs,
                                   clampsParams.minWidth,
                                   clampsParams.maxWidth,
                                   clampsParams.generateAllCrossPairs),
                    registry)

\* processFluidAtRule on the kept tokens of the at-rule: what it throws or
\* the nodes that replace the at-rule, the parameters it extracted, and the
\* registry it leaves.
processFluidAtRule(params, config, registry) ==
    compileScale([parseAtRuleParams(params, config)
                    EXCEPT !.pairs = extractPairs(params)],
                 registry)

\* The lexemes of this model that are not runs of [a-zA-Z0-9_-].
NonWordChars ==
    {" ", ".", "#", "&", ":", ",", "'", "\"", "[", "]", "(", ")", "=", "!",
     "*", ">", "{", "}", "$", "@"}

\* /^[a-zA-Z0-9_-]+$/.test(a)
IsAttributeName(a) ==
    a # <<>> /\ \A i \in 1..Len(a) : a[i] \notin NonWordChars

\* !v for a parameter that is null or a string.
FalsyString(p) == p.isNull \/ p.v = <<>>

\* !utilityParams.property: null or "" (an array, even empty, is truthy).
FalsyProperty(p) == p.isNull \/ (~p.v.isArray /\ p.v.s = <<>>)

\* s.endsWith(" &")
EndsWithParent(sel) ==
    Len(sel) >= 2 /\ sel[Len(sel) - 1] = " " /\ sel[Len(sel)] = "&"

\* A selector that wraps a parent-context pattern like any other.
ruleSelectorWrapWhole(utilityParams, item) ==
    IF ~FalsyString(utilityParams.attribute)
    THEN LET attrSelector == "[" \o Str(utilityParams.attribute.v) \o "=\""
                                \o Str(item.label) \o "\"]"
             baseSelector == IF ~FalsyString(utilityParams.selector)
                             THEN Str(utilityParams.selector.v) \o attrSelector
                             ELSE attrSelector
         IN  IF utilityParams.lowSpecificity.v
             THEN ":where(" \o baseSelector \o ")"
             ELSE baseSelector
    ELSE IF utilityParams.lowSpecificity.v
    THEN ":where(" \o Str(utilityParams.selector.v) \o "-"
            \o Str(item.label) \o ")"
    ELSE Str(utilityParams.selector.v) \o "-" \o Str(item.label)

\* A value that is the rendered literal in every mode.
ruleValueLiteral(utilityParams, item) == item.clamp

\* A property list that keeps the first name only.
propertiesFirstOnly(utilityParams) ==
    IF utilityParams.property.v.isArray
    THEN SubSeq(utilityParams.property.v.items, 1,
                IF utilityParams.property.v.items = <<>> THEN 0 ELSE 1)
    ELSE <<utilityParams.property.v.s>>

\* The selector and the value of the rule generated for one scale item.
ruleSelector(utilityParams, item) ==
    IF ~FalsyString(utilityParams.attribute)
    THEN LET attrSelector == "[" \o Str(utilityParams.attribute.v) \o "=\""
                                \o Str(item.label) \o "\"]"
             baseSelector == IF ~FalsyString(utilityParams.selector)
                             THEN Str(utilityParams.selector.v) \o attrSelector
                             ELSE attrSelector
         IN  IF utilityParams.lowSpecificity.v
             THEN ":where(" \o baseSelector \o ")"
             ELSE baseSelector
    ELSE LET sel == utilityParams.selector.v
             baseSelector == Str(sel) \o "-" \o Str(item.label)
         IN  IF utilityParams.lowSpecificity.v
             THEN IF EndsWithParent(sel)
                  THEN Str(SubSeq(sel, 1, Len(sel) - 1))
                          \o ":where(&-" \o Str(item.label) \o ")"
                  ELSE ":where(" \o baseSelector \o ")"
             ELSE baseSelector

ruleValue(utilityParams, item) ==
    IF ~FalsyString(utilityParams.attribute)
    THEN "var(--" \o Str(utilityParams.scale.v) \o "-"
            \o Str(item.label) \o ")"
    ELSE item.clamp

\* The property names as an array.
properties(utilityParams) ==
    IF utilityParams.property.v.isArray
    THEN utilityParams.property.v.items
    ELSE <<utilityParams.property.v.s>>

\* The rule generated for one scale item.
utilityRule(utilityParams, item) ==
    [selector |-> ruleSelector(utilityParams, item),
     decls |-> [k \in 1..Len(properties(utilityParams)) |->
                    [prop |-> Str(properties(utilityParams)[k]),
                     value |-> ruleValue(utilityParams, item)]]]

\* No filter at all.
scaleItemsUnfiltered(utilityParams, scale) == scale

\* A filter that treats an unset generateAllCrossPairs as false.
scaleItemsUnlessTrue(utilityParams, scale) ==
    IF utilityParams.generateAllCrossPairs # Val(TRUE)
    THEN SelectSeq(scale, LAMBDA item : ~Includes(item.label, "-"))
    ELSE scale

\* The scale items a utility expands: all of them, unless the directive's
\* own generateAllCrossPairs is false.
scaleItems(utilityParams, scale) ==
    IF utilityParams.generateAllCrossPairs = Val(FALSE)
    THEN SelectSeq(scale, LAMBDA item : ~Includes(item.label, "-"))
    ELSE scale

\* A resolution in which a run-level true cannot be switched off.
resolveLowSpecificityEither(utilityParams, config) ==
    IF utilityParams.lowSpecificity.isNull
    THEN [utilityParams EXCEPT !.lowSpecificity = Val(config.lowSpecificity)]
    ELSE [utilityParams EXCEPT
            !.lowSpecificity = Val(utilityParams.lowSpecificity.v
                                    \/ config.lowSpecificity)]

\* utilityParams after lowSpecificity is resolved from the configuration.
resolveLowSpecificity(utilityParams, config) ==
    IF utilityParams.lowSpecificity.isNull
    THEN [utilityParams EXCEPT !.lowSpecificity = Val(config.lowSpecificity)]
    ELSE utilityParams

\* A validation that looks at the required parameters before the attribute.
utilityValidationRequiredFirst(utilityParams) ==
    IF /\ FalsyString(utilityParams.selector)
       /\ FalsyString(utilityParams.attribute)
    THEN "[postcss-ruler] @ruler utility() requires either \"selector\" or \"attribute\" parameter"
    ELSE IF FalsyProperty(utilityParams.property)
    THEN "[postcss-ruler] @ruler utility() requires a \"property\" parameter"
    ELSE IF FalsyString(utilityParams.scale)
    THEN "[postcss-ruler] @ruler utility() requires a \"scale\" parameter"
    ELSE IF ~utilityParams.attribute.isNull /\ utilityParams.attribute.v = <<>>
    THEN "[postcss-ruler] @ruler utility() attribute parameter cannot be empty"
    ELSE IF /\ ~utilityParams.attribute.isNull
            /\ ~IsAttributeName(utilityParams.attribute.v)
    THEN "[postcss-ruler] @ruler utility() attribute parameter must contain only letters, numbers, hyphens, and underscores"
    ELSE ""

\* The error a utility's parameters are rejected with, "" when they pass.
utilityValidation(utilityParams) ==
    IF ~utilityParams.attribute.isNull /\ utilityParams.attribute.v = <<>>
    THEN "[postcss-ruler] @ruler utility() attribute parameter cannot be empty"
    ELSE IF /\ ~utilityParams.attribute.isNull
            /\ ~IsAttributeName(utilityParams.attribute.v)
    THEN "[postcss-ruler] @ruler utility() attribute parameter must contain only letters, numbers, hyphens, and underscores"
    ELSE IF /\ FalsyString(utilityParams.selector)
            /\ FalsyString(utilityParams.attribute)
    THEN "[postcss-ruler] @ruler utility() requires either \"selector\" or \"attribute\" parameter"
    ELSE IF FalsyProperty(utilityParams.property)
    THEN "[postcss-ruler] @ruler utility() requires a \"property\" parameter"
    ELSE IF FalsyString(utilityParams.scale)
    THEN "[postcss-ruler] @ruler utility() requires a \"scale\" parameter"
    ELSE ""

\* The rules generated for the selected items.
utilityRules(utilityParams, items) ==
    [k \in 1..Len(items) |-> utilityRule(utilityParams, items[k])]

\* processUtilityAtRule once scales[utilityParams.scale] is read.  A value
\* inherited from Object.prototype passes the existence check and fails as
\* a TypeError at the first array method called on it.
expandScale(utilityParams, scale) ==
    IF scale.kind = "undefined"
    THEN Throw("[postcss-ruler] Scale \"" \o Str(utilityParams.scale.v)
                \o "\" not found. Define it with @ruler scale() first.")
    ELSE IF scale.kind = "inherited"
    THEN Throw(IF utilityParams.generateAllCrossPairs = Val(FALSE)
               THEN "scale.filter is not a function"
               ELSE "scaleItems.map is not a function")
    ELSE Ok(utilityRules(utilityParams, scaleItems(utilityParams, scale.items)))

\* processUtilityAtRule once the parameters are validated.
expandUtility(utilityParams, invalid, registry) ==
    IF invalid # ""
    THEN [result |-> Throw(invalid), utilityParams |-> utilityParams]
    ELSE [result |-> expandScale(utilityParams,
                        scalesGet(registry, Str(utilityParams.scale.v))),
          utilityParams |-> utilityParams]

\* processUtilityAtRule from the resolved parameters on.
validateUtility(utilityParams, registry) ==
    expandUtility(utilityParams, utilityValidation(utilityParams), registry)

\* processUtilityAtRule on the kept tokens of the at-rule: what it throws or
\* the rules that replace the at-rule, and the parameters it extracted.
processUtilityAtRule(params, config, registry) ==
    validateUtility(resolveLowSpecificity(parseUtilityParams(params), config),
                    registry)

(***************************************************************************)
(* Declaration rewriter.  A declaration value is a sequence of chunks: the *)
(* matches of /ruler\.fluid\(([^)]+)\)/g, each with its comma-separated    *)
(* arguments, and the text between them (which holds no match).            *)
(***************************************************************************)

Text(t) == [call |-> FALSE, text |-> t]
Call(args) == [call |-> TRUE, args |-> args]

RECURSIVE JoinArgs(_)
\* The arguments as written, separated by commas.
JoinArgs(args) ==
    IF Len(args) = 0 THEN ""
    ELSE IF Len(args) = 1 THEN Str(args[1])
    ELSE Str(args[1]) \o "," \o JoinArgs(Tail(args))

\* The text of a chunk: match[0] for a match.
ChunkStr(c) ==
    IF c.call THEN "ruler.fluid(" \o JoinArgs(c.args) \o ")" ELSE c.text

RECURSIVE ValueStr(_)
\* The declaration value as a string.
ValueStr(chunks) ==
    IF chunks = <<>> THEN "" ELSE ChunkStr(Head(chunks)) \o ValueStr(Tail(chunks))

RECURSIVE TrimLeft(_)
TrimLeft(s) == IF s # <<>> /\ Head(s) = " " THEN TrimLeft(Tail(s)) ELSE s

RECURSIVE TrimRight(_)
TrimRight(s) ==
    IF s # <<>> /\ s[Len(s)] = " " THEN TrimRight(SubSeq(s, 1, Len(s) - 1)) ELSE s

\* s.trim()
Trim(s) == TrimRight(TrimLeft(s))

\* The k-th element of args.map(trim).map(Number); undefined (here NaN,
\* equally falsy) when there is none.
argNumber(args, k) == IF k <= Len(args) THEN Number(Trim(args[k])) ELSE NaN

\* !n for a number or undefined.
FalsyNumber(n) == IsNaN(n) \/ n = 0

RECURSIVE replaceFirstKept(_, _, _)
\* A replacement that puts the computed value in front of the match and
\* keeps the match.
replaceFirstKept(chunks, matchText, clampValue) ==
    IF chunks = <<>> THEN <<>>
    ELSE IF ChunkStr(Head(chunks)) = matchText
    THEN <<Text(clampValue), Head(chunks)>> \o Tail(chunks)
    ELSE <<Head(chunks)>>
            \o replaceFirstKept(Tail(chunks), matchText, clampValue)

RECURSIVE replaceFirst(_, _, _)
\* newValue.replace(match[0], clampValue): the first occurrence replaced.
replaceFirst(chunks, matchText, clampValue) ==
    IF chunks = <<>> THEN <<>>
    ELSE IF ChunkStr(Head(chunks)) = matchText
    THEN <<Text(clampValue)>> \o Tail(chunks)
    ELSE <<Head(chunks)>> \o replaceFirst(Tail(chunks), matchText, clampValue)

\* A loop body that rejects only sizes that are not numbers.
fluidCallZeroAllowed(args, config) ==
    LET minSize == argNumber(args, 1)
        maxSize == argNumber(args, 2)
        minWidth == IF FalsyNumber(argNumber(args, 3)) THEN config.minWidth
                    ELSE argNumber(args, 3)
        maxWidth == IF FalsyNumber(argNumber(args, 4)) THEN config.maxWidth
                    ELSE argNumber(args, 4)
    IN  IF IsNaN(minSize) \/ IsNaN(maxSize)
        THEN Throw("[postcss-ruler] ruler.fluid() requires minSize and maxSize")
        ELSE calculateClamp(minSize, maxSize, minWidth, maxWidth)

\* The body of the while loop for one match: the error thrown, or the
\* clamp value computed.
fluidCall(args, config) ==
    LET minSize == argNumber(args, 1)
        maxSize == argNumber(args, 2)
        minWidth == IF FalsyNumber(argNumber(args, 3)) THEN config.minWidth
                    ELSE argNumber(args, 3)
        maxWidth == IF FalsyNumber(argNumber(args, 4)) THEN config.maxWidth
                    ELSE argNumber(args, 4)
    IN  IF FalsyNumber(minSize) \/ FalsyNumber(maxSize)
        THEN Throw("[postcss-ruler] ruler.fluid() requires minSize and maxSize")
        ELSE calculateClamp(minSize, maxSize, minWidth, maxWidth)

RECURSIVE rewriteFromLost(_, _, _, _)
\* A loop that substitutes each match into the original value, losing the
\* substitutions made before.
rewriteFromLost(value, k, newValue, config) ==
    IF k > Len(value) THEN Ok(newValue)
    ELSE IF ~value[k].call THEN rewriteFromLost(value, k + 1, newValue, config)
    ELSE LET c == fluidCall(value[k].args, config)
         IN  IF ~c.ok THEN c
             ELSE rewriteFromLost(value, k + 1,
                    replaceFirst(value, ChunkStr(value[k]), c.value),
                    config)

RECURSIVE rewriteFromSkipping(_, _, _, _)
\* A loop that leaves a match that fails as it is and goes on.
rewriteFromSkipping(value, k, newValue, config) ==
    IF k > Len(value) THEN Ok(newValue)
    ELSE IF ~value[k].call
        THEN rewriteFromSkipping(value, k + 1, newValue, config)
    ELSE LET c == fluidCall(value[k].args, config)
         IN  IF ~c.ok THEN rewriteFromSkipping(value, k + 1, newValue, config)
             ELSE rewriteFromSkipping(value, k + 1,
                    replaceFirst(newValue, ChunkStr(value[k]), c.value),
                    config)

RECURSIVE rewriteFrom(_, _, _, _)
\* The while loop over the matches of the original value from chunk k on.
rewriteFrom(value, k, newValue, config) ==
    IF k > Len(value) THEN Ok(newValue)
    ELSE IF ~value[k].call THEN rewriteFrom(value, k + 1, newValue, config)
    ELSE LET c == fluidCall(value[k].args, config)
         IN  IF ~c.ok THEN c
             ELSE rewriteFrom(value, k + 1,
                    replaceFirst(newValue, ChunkStr(value[k]), c.value),
                    config)

\* The end of processFluidDeclaration: decl.value is assigned when the loop
\* ended and the new value differs.
assignValue(value, r) ==
    IF ~r.ok
    THEN [result |-> r, value |-> ValueStr(value), written |-> FALSE,
          chunks |-> value]
    ELSE [result |-> Ok(ValueStr(r.value)),
          value |-> ValueStr(r.value),
          written |-> ValueStr(r.value) # ValueStr(value),
          chunks |-> r.value]

\* processFluidDeclaration: what it throws, the declaration's value
\* afterwards, and whether decl.value was assigned.
processFluidDeclaration(value, config) ==
    assignValue(value, rewriteFrom(value, 1, value, config))

(***************************************************************************)
(* The directives and declarations the specifications feed the handlers:   *)
(* the token sequences the value parser yields for the documented syntax,  *)
(* after each handler's filter (dividers, spaces and braces dropped).      *)
(***************************************************************************)

RECURSIVE NatLex(_)
\* The decimal digits of a natural number, as written in a stylesheet.
NatLex(n) ==
    IF n < 10 THEN <<ToString(n)>>
    ELSE NatLex(n \div 10) \o <<ToString(n % 10)>>

\* key: value, with the value a bare word / a quoted string.
KeyWord(key, v) == <<Word(<<key>>), Word(v)>>
KeyString(key, v) == <<Word(<<key>>), String(v)>>

\* "name": [min, max]
PairTokens(name, min, max) ==
    <<String(name), Word(<<"[">> \o NatLex(min)), Word(NatLex(max) \o <<"]">>)>>

RECURSIVE PairsTokens(_)
\* The tokens of the entries of a pairs block; an entry is <<name, min, max>>.
PairsTokens(entries) ==
    IF entries = <<>> THEN <<>>
    ELSE PairTokens(entries[1][1], entries[1][2], entries[1][3])
            \o PairsTokens(Tail(entries))

\* pairs: { ... }
PairsBlock(entries) == <<Word(<<"pairs">>)>> \o PairsTokens(entries)

\* The optional scalar keys of @ruler scale(): each given as a sequence that
\* is empty when the key is left out.
ScaleParams(widths, prefix, cross, entries) ==
    widths \o prefix \o cross \o PairsBlock(entries)

Widths(minWidth, maxWidth) ==
    KeyWord("minWidth", NatLex(minWidth)) \o KeyWord("maxWidth", NatLex(maxWidth))

(***************************************************************************)
(* The plugin instance                                                     *)
(***************************************************************************)

\* Object.assign(target, source)
ObjectAssign(target, source) ==
    [k \in DOMAIN target \cup DOMAIN source |->
        IF k \in DOMAIN source THEN source[k] ELSE target[k]]

DEFAULTS ==
    [minWidth |-> 320,
     maxWidth |-> 1760,
     generateAllCrossPairs |-> FALSE,
     lowSpecificity |-> FALSE]

\* The plugin options the specifications create the instance with.
NoOptions == [k \in {} |-> FALSE]

PredefinedScales ==
    [space |-> [pairs |-> <<[name |-> <<"xs">>, values |-> <<8, 16>>],
                            [name |-> <<"sm">>, values |-> <<16, 24>>]>>]]

Options ==
    {NoOptions,
     [lowSpecificity |-> TRUE],
     [generateAllCrossPairs |-> TRUE],
     [scales |-> PredefinedScales]}

VARIABLES
    config,     \* the closure's config: DEFAULTS overridden by the options
    scales,     \* the closure's scale registry
    aborted,    \* whether a visitor threw in the current run
    last,       \* the last visitor call of the current run and its outcome
    defined     \* history: per prefix, the parameters of the last scale
                \* directive that succeeded, whether it was in this run, and
                \* whether it replaced a different definition

vars == <<config, scales, aborted, last, defined>>

Init ==
    /\ config \in {ObjectAssign(DEFAULTS, opts) : opts \in Options}
    /\ scales = [k \in {} |-> <<>>]
    /\ aborted = FALSE
    /\ last = [op |-> "none"]
    /\ defined = [k \in {} |-> <<>>]

\* The history after a scale directive with these parameters succeeded.
recordScale(history, clampsParams) ==
    [k \in DOMAIN history \cup {Str(clampsParams.prefix)} |->
        IF k = Str(clampsParams.prefix)
        THEN [thisRun |-> TRUE,
              clampsParams |-> clampsParams,
              redefined |-> /\ k \in DOMAIN history
                            /\ history[k].clampsParams # clampsParams]
        ELSE history[k]]

\* The AtRule visitor on @ruler scale(...).
ScaleAtRule(params) ==
    \E r \in {processFluidAtRule(params, config, scales)} :
        /\ ~aborted
        /\ scales' = r.scales
        /\ aborted' = ~r.result.ok
        /\ last' = [op |-> "scale", params |-> params, result |-> r.result,
                    clampsParams |-> r.clampsParams]
        /\ defined' = IF r.result.ok
                      THEN recordScale(defined, r.clampsParams)
                      ELSE defined
        /\ UNCHANGED config

\* The AtRule visitor on @ruler utility(...).
UtilityAtRule(params) ==
    \E r \in {processUtilityAtRule(params, config, scales)} :
        /\ ~aborted
        /\ aborted' = ~r.result.ok
        /\ last' = [op |-> "utility", params |-> params, result |-> r.result,
                    utilityParams |-> r.utilityParams]
        /\ UNCHANGED <<config, scales, defined>>

\* The Declaration visitor.
Declaration(value) ==
    \E r \in {processFluidDeclaration(value, config)} :
        /\ ~aborted
        /\ aborted' = ~r.result.ok
        /\ last' = [op |-> "decl", result |-> r.result, input |-> value,
                    value |-> r.value, written |-> r.written,
                    chunks |-> r.chunks, visits |-> 1]
        /\ UNCHANGED <<config, scales, defined>>

\* The Declaration visitor called again by the host on the declaration it
\* has just visited.
Revisit ==
    \E r \in {processFluidDeclaration(last.chunks, config)} :
        /\ ~aborted
        /\ aborted' = ~r.result.ok
        /\ last' = [op |-> "decl", result |-> r.result, input |-> last.chunks,
                    value |-> r.value, written |-> r.written,
                    chunks |-> r.chunks, visits |-> last.visits + 1]
        /\ UNCHANGED <<config, scales, defined>>

\* The host runs the same plugin instance over another document: the
\* closure is not created anew, and no visitor resets the registry.
StartRun ==
    /\ last.op # "none"
    /\ aborted' = FALSE
    /\ last' = [op |-> "none"]
    /\ defined' = [k \in DOMAIN defined |->
                    [defined[k] EXCEPT !.thisRun = FALSE]]
    /\ UNCHANGED <<config, scales>>

(***************************************************************************)
(* Spec: the life of one plugin instance.  In each run the host visits     *)
(* any document made of the directives and declarations below, in document *)
(* order, until a visitor throws or the document ends.                     *)
(***************************************************************************)

XsSm == <<<<<<"xs">>, 8, 16>>, <<<<"sm">>, 16, 24>>>>

HalfStepMd == <<<<<<"half", "-", "step">>, 12, 20>>, <<<<"md">>, 24, 32>>>>

\* Two pairs of equal sizes: only their cross pair is fluid.
FlatPairs == <<<<<<"a">>, 8, 8>>, <<<<"b">>, 16, 16>>>>

DefaultPrefix == <<>>
GapPrefix == KeyString("prefix", <<"gap">>)

DefaultCross == <<>>
CrossTrue == KeyWord("generateAllCrossPairs", <<"true">>)
CrossFalse == KeyWord("generateAllCrossPairs", <<"false">>)

ScaleDirectives ==
    {ScaleParams(<<>>, DefaultPrefix, cross, entries) :
        cross \in {DefaultCross, CrossTrue}, entries \in {XsSm, HalfStepMd}}
    \cup
    {ScaleParams(<<>>, DefaultPrefix, DefaultCross, <<>>),
     ScaleParams(<<>>, DefaultPrefix, CrossTrue, <<<<<<"sm">>, 24, 16>>>>),
     ScaleParams(<<>>, GapPrefix, DefaultCross, XsSm),
     ScaleParams(<<>>, GapPrefix, CrossTrue, HalfStepMd),
     ScaleParams(Widths(1760, 320), DefaultPrefix, DefaultCross, XsSm),
     ScaleParams(Widths(1760, 320), DefaultPrefix, CrossTrue, FlatPairs)}

\* selector: '.gap', property: 'gap', scale: '<name>' and an optional
\* generateAllCrossPairs.
ClassUtility(scaleName, cross) ==
    KeyString("selector", <<".", "gap">>) \o KeyString("property", <<"gap">>)
        \o KeyString("scale", scaleName) \o cross

UtilityDirectives ==
    {ClassUtility(scaleName, cross) :
        scaleName \in {<<"space">>, <<"gap">>, <<"constructor">>},
        cross \in {DefaultCross, CrossFalse}}
    \cup
    {KeyString("attribute", <<"data", "-", "gap">>)
        \o KeyString("property", <<"gap">>) \o KeyString("scale", <<"space">>),
     KeyString("property", <<"gap">>) \o KeyString("scale", <<"space">>)}

\* ruler.fluid(min, max)
Fluid2(min, max) == Call(<<NatLex(min), NatLex(max)>>)

DeclValues ==
    {<<Text("1px solid")>>,
     <<Fluid2(16, 16), Text(" "), Fluid2(16, 24)>>,
     <<Fluid2(24, 16)>>}

ScaleStep == \E params \in ScaleDirectives : ScaleAtRule(params)

UtilityStep == \E params \in UtilityDirectives : UtilityAtRule(params)

DeclarationStep == \E value \in DeclValues : Declaration(value)

Next == ScaleStep \/ UtilityStep \/ DeclarationStep \/ StartRun

Spec == Init /\ [][Next]_vars

(***************************************************************************)
(* Properties of the plugin instance (Spec)                                *)
(***************************************************************************)

\* The last visitor call was a utility whose parameters passed validation.
ValidUtility ==
    /\ last.op = "utility"
    /\ utilityValidation(last.utilityParams) = ""

\* The scale name of the last utility, as the registry key.
UtilityScale == Str(last.utilityParams.scale.v)

NotFoundError(name) ==
    "[postcss-ruler] Scale \"" \o name
        \o "\" not found. Define it with @ruler scale() first."

\* The entries compiled from the parameters of a scale directive.
Compiled(clampsParams) ==
    generateClamps(clampsParams.pairs, clampsParams.minWidth,
                   clampsParams.maxWidth, clampsParams.generateAllCrossPairs).value

\* rules are the rules of exactly these items, in order.
RulesOf(rules, items) ==
    /\ Len(rules) = Len(items)
    /\ \A k \in 1..Len(items) :
        /\ rules[k].selector = ruleSelector(last.utilityParams, items[k])
        /\ \A d \in 1..Len(rules[k].decls) :
            rules[k].decls[d].value = ruleValue(last.utilityParams, items[k])

\* C1: a utility that passes validation succeeds if a scale directive with
\* its scale name as prefix succeeded earlier, and otherwise fails with the
\* "Scale ... not found" error.
C1_UtilityNeedsRegisteredScale ==
    ValidUtility =>
        IF UtilityScale \in DOMAIN defined
        THEN last.result.ok
        ELSE /\ ~last.result.ok
             /\ last.result.error = NotFoundError(UtilityScale)

\* C2: a scale pre-defined in the plugin options can be used by a utility
\* without any scale directive.
C2_PredefinedScaleUsable ==
    (/\ ValidUtility
     /\ "scales" \in DOMAIN config
     /\ UtilityScale \in DOMAIN config.scales) => last.result.ok

\* C3: the registry holds, under each prefix, exactly the entries compiled
\* from the last scale directive that succeeded with that prefix, and a
\* utility expands those entries.
C3_LastDefinitionWins ==
    /\ DOMAIN scales = DOMAIN defined
    /\ \A p \in DOMAIN defined : scales[p] = Compiled(defined[p].clampsParams)
    /\ (last.op = "utility" /\ last.result.ok) =>
            RulesOf(last.result.value,
                    scaleItems(last.utilityParams,
                               Compiled(defined[UtilityScale].clampsParams)))

\* A utility has expanded a scale whose prefix was defined twice, with
\* different parameters, while another prefix is registered too.
C3_Witness ==
    /\ last.op = "utility"
    /\ last.result.ok
    /\ defined[UtilityScale].redefined
    /\ Len(last.result.value) > 0
    /\ \E p \in DOMAIN scales : p # UtilityScale

\* C4: the registry holds no scale defined in an earlier run, and a utility
\* that names a scale defined only in an earlier run fails with "not found".
C4_RegistryClearedBetweenRuns ==
    /\ \A p \in DOMAIN scales : defined[p].thisRun
    /\ (/\ ValidUtility
        /\ UtilityScale \in DOMAIN defined
        /\ ~defined[UtilityScale].thisRun)
       => /\ ~last.result.ok
          /\ last.result.error = NotFoundError(UtilityScale)

\* The labels of the entries that have a hyphen.
Hyphenated(entries) == SelectSeq(entries, LAMBDA e : Includes(e.label, "-"))
Unhyphenated(entries) == SelectSeq(entries, LAMBDA e : ~Includes(e.label, "-"))

\* The generateAllCrossPairs of the last utility, with the run-level default
\* when the directive does not set it.
InheritedCross ==
    IF last.utilityParams.generateAllCrossPairs.isNull
    THEN config.generateAllCrossPairs
    ELSE last.utilityParams.generateAllCrossPairs.v

\* C10 as claimed: generateAllCrossPairs is inherited from the run-level
\* default, and when the resolved value is false no hyphenated entry is
\* expanded.
C10_InheritsRunDefault ==
    (last.op = "utility" /\ last.result.ok /\ ~InheritedCross) =>
        RulesOf(last.result.value, Unhyphenated(scales[UtilityScale]))

\* C10, amended: hyphenated entries are excluded exactly when the directive
\* itself sets generateAllCrossPairs to false; a directive that does not set
\* it expands every entry, whatever the run-level default.
C10_OnlyExplicitFalseFilters ==
    (last.op = "utility" /\ last.result.ok) =>
        IF last.utilityParams.generateAllCrossPairs = Val(FALSE)
        THEN RulesOf(last.result.value, Unhyphenated(scales[UtilityScale]))
        ELSE RulesOf(last.result.value, scales[UtilityScale])

\* A utility without generateAllCrossPairs, under a run-level default of
\* false, has expanded a scale that holds hyphenated entries.
C10_Witness ==
    /\ last.op = "utility"
    /\ last.result.ok
    /\ last.utilityParams.generateAllCrossPairs.isNull
    /\ ~config.generateAllCrossPairs
    /\ Len(Hyphenated(scales[UtilityScale])) > 0
    /\ Len(last.result.value) = Len(scales[UtilityScale])

\* The base pairs, of the scale the last utility names, whose name has no
\* hyphen.
PlainPairs ==
    {k \in 1..Len(defined[UtilityScale].clampsParams.pairs) :
        ~Includes(defined[UtilityScale].clampsParams.pairs[k].name, "-")}

\* C11: a utility that sets generateAllCrossPairs: false generates the rules
\* of exactly the registry entries whose label has no hyphen, in registry
\* order, whether or not the scale was compiled with cross pairs; a base
\* pair whose name has a hyphen is excluded like a cross pair, so there are
\* as many rules as base pairs with a plain name.
C11_ExplicitFalseKeepsPlainLabels ==
    (/\ last.op = "utility"
     /\ last.result.ok
     /\ last.utilityParams.generateAllCrossPairs = Val(FALSE)) =>
        /\ RulesOf(last.result.value, Unhyphenated(scales[UtilityScale]))
        /\ Len(last.result.value) = Cardinality(PlainPairs)

\* A utility with generateAllCrossPairs: false has expanded a scale compiled
\* with cross pairs, one of whose base pairs has a hyphen in its name: that
\* pair and the cross entries are left out.
C11_Witness ==
    /\ last.op = "utility"
    /\ last.result.ok
    /\ last.utilityParams.generateAllCrossPairs = Val(FALSE)
    /\ defined[UtilityScale].clampsParams.generateAllCrossPairs
    /\ Cardinality(PlainPairs) < Len(defined[UtilityScale].clampsParams.pairs)
    /\ Len(last.result.value) = 1
    /\ Len(scales[UtilityScale]) = 3

\* C26: a scale directive that fails (no pairs, a size error, a width error
\* in a base or a cross pair) ends the run without replacing the at-rule
\* and leaves the registry as it was; at every moment each registered scale
\* is the compilation of the last directive that succeeded for its prefix,
\* which is what a later utility expands.
C26_FailedScaleLeavesRegistry ==
    /\ [][(last'.op = "scale" /\ ~last'.result.ok) =>
            /\ scales' = scales
            /\ defined' = defined
            /\ aborted']_vars
    /\ [](/\ DOMAIN scales = DOMAIN defined
          /\ \A k \in DOMAIN defined :
                scales[k] = Compiled(defined[k].clampsParams))

\* With the scale xs, sm registered, a directive for the same prefix has
\* failed on the widths in its cross pair.
C26_Witness ==
    /\ last.op = "scale"
    /\ last.params = ScaleParams(Widths(1760, 320), DefaultPrefix, CrossTrue,
                                 FlatPairs)
    /\ last.result
        = Throw("[postcss-ruler] Invalid width: min (1760) must be less than max (320)")
    /\ aborted
    /\ "space" \in DOMAIN scales
    /\ [k \in 1..Len(scales["space"]) |-> scales["space"][k].label]
        = <<<<"xs">>, <<"sm">>>>

(***************************************************************************)
(* SpecClamp: the clamp calculator over a range of sizes and widths, called *)
(* directly and reached through each of the three modes (an inline call, a *)
(* scale directive, a utility on the scale just defined).  The widths are  *)
(* such that no quotient the calculator rounds lies within a floating-     *)
(* point error of a rounding boundary, so the exact quotients of this      *)
(* module round as the doubles of the code do.                             *)
(***************************************************************************)

MaxSize == 24

ClampSizes == (-MaxSize)..MaxSize

ClampWidths == {0, 320, 375, 1760, NaN}

\* The sizes written in the directives and declarations of SpecClamp.
ModeSizes == {x \in 0..MaxSize : x % 8 = 0}

ClampOptions == {NoOptions, [minWidth |-> 375, maxWidth |-> 1440]}

InitClamp ==
    /\ config \in {ObjectAssign(DEFAULTS, opts) : opts \in ClampOptions}
    /\ scales = [k \in {} |-> <<>>]
    /\ aborted = FALSE
    /\ last = [op |-> "none"]
    /\ defined = [k \in {} |-> <<>>]

\* calculateClamp({ minSize, maxSize, minWidth, maxWidth })
CalculateClamp(minSize, maxSize, minWidth, maxWidth) ==
    /\ last' = [op |-> "clamp",
                minSize |-> minSize, maxSize |-> maxSize,
                minWidth |-> minWidth, maxWidth |-> maxWidth,
                result |-> calculateClamp(minSize, maxSize, minWidth, maxWidth)]
    /\ UNCHANGED <<config, scales, aborted, defined>>

\* ruler.fluid(min, max, minWidth, maxWidth)
Fluid4(min, max, minWidth, maxWidth) ==
    Call(<<NatLex(min), NatLex(max), NatLex(minWidth), NatLex(maxWidth)>>)

InlineWidths == {0, 320, 1760}

\* The declaration values made of one inline call with these sizes.
InlineCalls(min, max) ==
    {<<Fluid2(min, max)>>}
    \cup {<<Fluid4(min, max, minWidth, maxWidth)>> :
            minWidth \in InlineWidths, maxWidth \in InlineWidths}

\* The width keys of a scale directive: none, valid, reversed, equal, and a
\* minWidth that is not a number.
ClampScaleWidths ==
    {<<>>, Widths(0, 375), Widths(1760, 320), Widths(320, 320),
     KeyWord("minWidth", <<"abc">>)}

\* One pair, or the pair xs: [8, 16] followed by it with cross pairs.
ClampScales(min, max) ==
    {ScaleParams(widths, DefaultPrefix, DefaultCross, <<<<<<"a">>, min, max>>>>) :
        widths \in ClampScaleWidths}
    \cup
    {ScaleParams(widths, DefaultPrefix, CrossTrue,
                 <<<<<<"xs">>, 8, 16>>, <<<<"a">>, min, max>>>>) :
        widths \in ClampScaleWidths}

ClampCallStep ==
    /\ last.op = "none"
    /\ \E minSize \in ClampSizes, maxSize \in ClampSizes,
          minWidth \in ClampWidths, maxWidth \in ClampWidths :
            CalculateClamp(minSize, maxSize, minWidth, maxWidth)

ClampInlineStep ==
    /\ last.op = "none"
    /\ \E min \in ModeSizes, max \in ModeSizes :
        \E value \in InlineCalls(min, max) : Declaration(value)

ClampScaleStep ==
    /\ last.op = "none"
    /\ \E min \in ModeSizes, max \in ModeSizes :
        \E params \in ClampScales(min, max) : ScaleAtRule(params)

ClampUtilityStep ==
    /\ last.op = "scale"
    /\ UtilityAtRule(ClassUtility(<<"space">>, DefaultCross))

NextClamp ==
    ClampCallStep \/ ClampInlineStep \/ ClampScaleStep \/ ClampUtilityStep

SpecClamp == InitClamp /\ [][NextClamp]_vars

(***************************************************************************)
(* Properties of the clamp calculator (SpecClamp)                          *)
(***************************************************************************)

\* The last step was an inline call ruler.fluid(min, max, ...) alone in a
\* declaration value.
InlineCallOf(min, max) ==
    /\ last.op = "decl"
    /\ last.input \in InlineCalls(min, max)

MissingSizes == "[postcss-ruler] ruler.fluid() requires minSize and maxSize"

InvalidSize(min, max) ==
    "[postcss-ruler] Invalid size: min (" \o ToString(min)
        \o ") must be less than max (" \o ToString(max) \o ")"

\* The pairs of the scale directive last processed that have equal sizes.
StaticPairs ==
    {k \in 1..Len(last.clampsParams.pairs) :
        last.clampsParams.pairs[k].values[1] = last.clampsParams.pairs[k].values[2]}

\* C5: with minSize = maxSize = x calculateClamp returns pxToRem(x), a plain
\* rem length, whatever the widths; so does an inline call with two equal
\* sizes (a size of 0 is rejected before the calculator is called), the
\* scale entry and custom property of a pair with equal sizes, and the
\* utility rule generated from that entry.
C5_StaticCollapse ==
    /\ (last.op = "clamp" /\ last.minSize = last.maxSize) =>
            /\ last.result = Ok(pxToRem(last.minSize))
            /\ last.minSize = 16 => last.result.value = "1rem"
            /\ last.minSize = 8 => last.result.value = "0.5rem"
            /\ last.minSize = 0 => last.result.value = "0rem"
    /\ \A x \in ModeSizes :
        InlineCallOf(x, x) =>
            IF x = 0
            THEN last.result = Throw(MissingSizes)
            ELSE last.result.ok /\ last.value = pxToRem(x)
    /\ (last.op = "scale" /\ last.result.ok) =>
            \A k \in StaticPairs :
                /\ scales["space"][k].clamp
                        = pxToRem(last.clampsParams.pairs[k].values[1])
                /\ last.result.value[k].value
                        = pxToRem(last.clampsParams.pairs[k].values[1])
    /\ (last.op = "utility" /\ last.result.ok) =>
            \A k \in 1..Len(defined["space"].clampsParams.pairs) :
                defined["space"].clampsParams.pairs[k].values[1]
                        = defined["space"].clampsParams.pairs[k].values[2]
                    => last.result.value[k].decls[1].value
                        = pxToRem(defined["space"].clampsParams.pairs[k].values[1])

\* A utility has generated a rule whose value is the plain rem length of a
\* pair with equal sizes, defined under reversed widths.
C5_Witness ==
    /\ last.op = "utility"
    /\ last.result.ok
    /\ defined["space"].clampsParams.minWidth > defined["space"].clampsParams.maxWidth
    /\ \E k \in 1..Len(defined["space"].clampsParams.pairs) :
        /\ defined["space"].clampsParams.pairs[k].values = <<16, 16>>
        /\ last.result.value[k].decls[1].value = "1rem"

\* The first pair of the scale directive last processed whose sizes differ,
\* 0 when there is none.
FirstFluidPair ==
    LET fluid == {k \in 1..Len(last.clampsParams.pairs) :
                    last.clampsParams.pairs[k].values[1]
                        # last.clampsParams.pairs[k].values[2]}
    IN  IF fluid = {} THEN 0 ELSE CHOOSE k \in fluid : \A m \in fluid : k <= m

\* C6: with minSize > maxSize calculateClamp throws "Invalid size: min (..)
\* must be less than max (..)", whatever the widths, also when the widths
\* are invalid too; so does an inline call (unless a size is 0, which is
\* rejected before), and a scale directive whose first pair of unequal
\* sizes is reversed; a scale never fails with a size error that is not the
\* error of one of its base pairs.
C6_SizeCheckedFirst ==
    /\ (last.op = "clamp" /\ last.minSize > last.maxSize) =>
            last.result = Throw(InvalidSize(last.minSize, last.maxSize))
    /\ \A min \in ModeSizes, max \in ModeSizes :
        (min > max /\ InlineCallOf(min, max)) =>
            IF max = 0
            THEN last.result = Throw(MissingSizes)
            ELSE last.result = Throw(InvalidSize(min, max))
    /\ (/\ last.op = "scale"
        /\ FirstFluidPair # 0
        /\ last.clampsParams.pairs[FirstFluidPair].values[1]
                > last.clampsParams.pairs[FirstFluidPair].values[2]) =>
            last.result =
                Throw(InvalidSize(last.clampsParams.pairs[FirstFluidPair].values[1],
                                  last.clampsParams.pairs[FirstFluidPair].values[2]))
    /\ \A min \in 0..MaxSize, max \in 0..MaxSize :
        (last.op = "scale" /\ last.result = Throw(InvalidSize(min, max))) =>
            \E k \in 1..Len(last.clampsParams.pairs) :
                /\ last.clampsParams.pairs[k].values = <<min, max>>
                /\ min > max

\* A scale directive with reversed widths has failed on the sizes of its
\* first pair.
C6_Witness ==
    /\ last.op = "scale"
    /\ ~last.result.ok
    /\ last.clampsParams.minWidth > last.clampsParams.maxWidth
    /\ last.clampsParams.pairs[1].values[1] > last.clampsParams.pairs[1].values[2]
    /\ last.result.error
        = "[postcss-ruler] Invalid size: min (24) must be less than max (16)"

\* Both widths are numbers and the first is the smaller.
WidthsOrdered(minWidth, maxWidth) ==
    /\ ~IsNaN(minWidth)
    /\ ~IsNaN(maxWidth)
    /\ minWidth < maxWidth

\* Both widths are numbers and the first is not the smaller.
WidthsCollapsed(minWidth, maxWidth) ==
    /\ ~IsNaN(minWidth)
    /\ ~IsNaN(maxWidth)
    /\ minWidth >= maxWidth

\* The width an inline call is evaluated with: the run's when the argument
\* is 0.
EffectiveWidth(arg, default) == IF arg = 0 THEN default ELSE arg

InvalidWidth(min, max) ==
    "[postcss-ruler] Invalid width: min (" \o NumStr(min)
        \o ") must be less than max (" \o NumStr(max) \o ")"

\* C19: a calculation, a scale directive or an inline call that completes
\* without error was evaluated with minWidth < maxWidth, and whenever the
\* effective minWidth >= maxWidth it fails with the "Invalid width" error.
C19_WidthsStrictlyOrdered ==
    /\ last.op = "clamp" =>
        /\ last.result.ok => WidthsOrdered(last.minWidth, last.maxWidth)
        /\ WidthsCollapsed(last.minWidth, last.maxWidth) =>
                last.result = Throw(InvalidWidth(last.minWidth, last.maxWidth))
    /\ last.op = "scale" =>
        /\ last.result.ok =>
                WidthsOrdered(last.clampsParams.minWidth,
                              last.clampsParams.maxWidth)
        /\ WidthsCollapsed(last.clampsParams.minWidth,
                           last.clampsParams.maxWidth) =>
                last.result = Throw(InvalidWidth(last.clampsParams.minWidth,
                                                 last.clampsParams.maxWidth))
    /\ \A min \in ModeSizes, max \in ModeSizes :
        \A minWidth \in InlineWidths, maxWidth \in InlineWidths :
            (/\ last.op = "decl"
             /\ last.input = <<Fluid4(min, max, minWidth, maxWidth)>>) =>
                /\ last.result.ok =>
                        WidthsOrdered(EffectiveWidth(minWidth, config.minWidth),
                                      EffectiveWidth(maxWidth, config.maxWidth))
                /\ WidthsCollapsed(EffectiveWidth(minWidth, config.minWidth),
                                   EffectiveWidth(maxWidth, config.maxWidth)) =>
                        last.result =
                            Throw(InvalidWidth(
                                EffectiveWidth(minWidth, config.minWidth),
                                EffectiveWidth(maxWidth, config.maxWidth)))

\* The integer nearest to 10^4 * num / den for num >= 0 and den > 0, the
\* larger one on a tie.
NearestTenThousandth(num, den) ==
    CHOOSE n \in {(10000 * num) \div den, (10000 * num) \div den + 1} :
        /\ 2 * (n * den - 10000 * num) <= den
        /\ 2 * (10000 * num - n * den) < den

\* n / 10^4 (n >= 0) written with exactly four decimals.
FourDecimals(n) ==
    ToString(n \div 10000) \o "." \o ToString((n \div 1000) % 10)
        \o ToString((n \div 100) % 10) \o ToString((n \div 10) % 10)
        \o ToString(n % 10)

\* clamp(A, Bvw + C, D) as the claim states it.
ExpectedClamp(minSize, maxSize, minWidth, maxWidth) ==
    "clamp(" \o pxToRem(minSize) \o ", "
        \o FourDecimals(NearestTenThousandth(100 * (maxSize - minSize),
                                             maxWidth - minWidth))
        \o "vw + "
        \o pxToRemQ(minSize * (maxWidth - minWidth)
                        - minWidth * (maxSize - minSize),
                    maxWidth - minWidth)
        \o ", " \o pxToRem(maxSize) \o ")"

MaxPairs == 3

\* The name of the pair written at each position of the pairs block.
PairNames == <<<<"xs">>, <<"sm">>, <<"md">>, <<"lg">>, <<"xl">>>>

\* The sizes of a pair: growing, equal minimum sizes, equal sizes, reversed.
PairSizes == {<<8, 16>>, <<16, 24>>, <<8, 24>>, <<16, 16>>, <<24, 16>>}

\* The entries of a pairs block with these sizes.
PairList(sizes) ==
    [k \in 1..Len(sizes) |-> <<PairNames[k], sizes[k][1], sizes[k][2]>>]

PairLists ==
    {PairList(sizes) : sizes \in UNION {[1..n -> PairSizes] : n \in 1..MaxPairs}}

ScalePairsStep ==
    /\ last.op = "none"
    /\ \E entries \in PairLists, cross \in {DefaultCross, CrossTrue, CrossFalse} :
        ScaleAtRule(ScaleParams(<<>>, DefaultPrefix, cross, entries))

ScaleUtilityStep ==
    /\ last.op = "scale"
    /\ \E cross \in {DefaultCross, CrossFalse} :
        UtilityAtRule(ClassUtility(<<"space">>, cross))

NextScale == ScalePairsStep \/ ScaleUtilityStep

SpecScale == Init /\ [][NextScale]_vars

(***************************************************************************)
(* Properties of the scale compiler (SpecScale)                            *)
(***************************************************************************)

\* A scale directive has been compiled and stored.
ScaleCompiled == last.op = "scale" /\ last.result.ok

\* The position, among the cross entries of n pairs, of the entry of the
\* pairs i < j: the index pairs come in the order (1,2), (1,3), ..., (2,3), ...
CrossPosition(i, j, n) == (i - 1) * n - (i * (i - 1)) \div 2 + (j - i)

\* Of two pairs, p before q in the list: the one with the lower minimum
\* size, p when they are equal; and the other one.
SmallerOf(p, q) == IF q.values[1] < p.values[1] THEN q ELSE p
LargerOf(p, q) == IF q.values[1] < p.values[1] THEN p ELSE q

\* C8: with cross pairs, n pairs compile to n + n(n-1)/2 entries, the n base
\* entries first and in order, then the entry of each index pair i < j at
\* its position in the order (1,2), (1,3), ..., (2,3), ...; without cross
\* pairs, to the n base entries.
C8_EntryCountAndOrder ==
    ScaleCompiled =>
        LET pairs == last.clampsParams.pairs
            n == Len(last.clampsParams.pairs)
            entries == scales["space"]
        IN  /\ \A k \in 1..n : entries[k].label = pairs[k].name
            /\ IF last.clampsParams.generateAllCrossPairs
               THEN /\ Len(entries) = n + (n * (n - 1)) \div 2
                    /\ \A i \in 1..n, j \in 1..n :
                        i < j =>
                            entries[n + CrossPosition(i, j, n)].label
                                \in {pairs[i].name \o <<"-">> \o pairs[j].name,
                                     pairs[j].name \o <<"-">> \o pairs[i].name}
               ELSE Len(entries) = n

\* A scale of MaxPairs pairs has been compiled with cross pairs.
C8_Witness ==
    /\ ScaleCompiled
    /\ last.clampsParams.generateAllCrossPairs
    /\ Len(last.clampsParams.pairs) = MaxPairs
    /\ Len(scales["space"]) > MaxPairs

\* C9: the cross entry of two pairs is labelled <smaller>-<larger>, smaller
\* being the pair with the lower minimum size and, when they are equal, the
\* earlier pair, and its value is calculateClamp(smaller's minimum, larger's
\* maximum); xs: [8, 16], sm: [16, 24] give the single cross entry xs-sm,
\* clamp(0.5rem, 1.1111vw + 0.2778rem, 1.5rem).
C9_CrossEntry ==
    (ScaleCompiled /\ last.clampsParams.generateAllCrossPairs) =>
        LET pairs == last.clampsParams.pairs
            n == Len(last.clampsParams.pairs)
            entries == scales["space"]
        IN  /\ \A i \in 1..n, j \in 1..n :
                i < j =>
                    /\ entries[n + CrossPosition(i, j, n)].label
                        = SmallerOf(pairs[i], pairs[j]).name \o <<"-">>
                            \o LargerOf(pairs[i], pairs[j]).name
                    /\ Ok(entries[n + CrossPosition(i, j, n)].clamp)
                        = calculateClamp(SmallerOf(pairs[i], pairs[j]).values[1],
                                         LargerOf(pairs[i], pairs[j]).values[2],
                                         last.clampsParams.minWidth,
                                         last.clampsParams.maxWidth)
            /\ (/\ n = 2
                /\ pairs[1].values = <<8, 16>>
                /\ pairs[2].values = <<16, 24>>) =>
                    /\ Len(entries) = 3
                    /\ entries[3] =
                        [label |-> <<"xs", "-", "sm">>,
                         clamp |-> "clamp(0.5rem, 1.1111vw + 0.2778rem, 1.5rem)"]

\* Two pairs with the same minimum size have been compiled with cross pairs:
\* the cross entry is named after the earlier pair first and spans from the
\* common minimum to the later pair's maximum.
C9_Witness ==
    /\ ScaleCompiled
    /\ last.clampsParams.generateAllCrossPairs
    /\ Len(last.clampsParams.pairs) = 2
    /\ last.clampsParams.pairs[1].values = <<8, 24>>
    /\ last.clampsParams.pairs[2].values = <<8, 16>>
    /\ scales["space"][3].label = <<"xs", "-", "sm">>
    /\ scales["space"][3].clamp = scales["space"][2].clamp

(***************************************************************************)
(* SpecUtility: the utility expander over the combinations of its          *)
(* parameters, on an empty registry or after one scale directive.          *)
(***************************************************************************)

UtilityOptions == {NoOptions, [lowSpecificity |-> TRUE]}

InitUtility ==
    /\ config \in {ObjectAssign(DEFAULTS, opts) : opts \in UtilityOptions}
    /\ scales = [k \in {} |-> <<>>]
    /\ aborted = FALSE
    /\ last = [op |-> "none"]
    /\ defined = [k \in {} |-> <<>>]

\* A scale with a cross entry, and one with a hyphenated name and a pair of
\* equal sizes.
UtilitySeeds ==
    {ScaleParams(<<>>, DefaultPrefix, CrossTrue, XsSm),
     ScaleParams(<<>>, DefaultPrefix, DefaultCross,
                 <<<<<<"half", "-", "step">>, 12, 20>>, <<<<"flat">>, 16, 16>>>>)}

\* Each parameter of @ruler utility() as the tokens of its key and value,
\* empty when the key is left out.
SelectorChoices ==
    {<<>>,
     KeyString("selector", <<".", "gap">>),
     KeyString("selector", <<".", "container", " ", "&">>),
     KeyString("selector", <<>>)}

AttributeChoices ==
    {<<>>,
     KeyString("attribute", <<"data", "-", "gap">>),
     KeyString("attribute", <<>>),
     KeyString("attribute", <<"data", " ", "gap">>)}

PropertyChoices ==
    {<<>>,
     KeyString("property", <<"gap">>),
     KeyString("property", <<>>),
     <<Word(<<"property">>), Word(<<"[">>),
       String(<<"margin", "-", "top">>), String(<<"margin", "-", "bottom">>),
       Word(<<"]">>)>>,
     <<Word(<<"property">>), Word(<<"[">>), Word(<<"]">>)>>,
     KeyWord("property", <<"[", "]">>)}

ScaleChoices ==
    {<<>>,
     KeyString("scale", <<"space">>),
     KeyString("scale", <<"none">>),
     KeyString("scale", <<"constructor">>)}

LowSpecificityChoices ==
    {<<>>,
     KeyWord("lowSpecificity", <<"true">>),
     KeyWord("lowSpecificity", <<"false">>)}

UtilitySeedStep ==
    /\ last.op = "none"
    /\ \E params \in UtilitySeeds : ScaleAtRule(params)

UtilityExpandStep ==
    /\ last.op \in {"none", "scale"}
    /\ \E selector \in SelectorChoices, attribute \in AttributeChoices,
          property \in PropertyChoices, scale \in ScaleChoices,
          cross \in {DefaultCross, CrossFalse},
          lowSpecificity \in LowSpecificityChoices :
            UtilityAtRule(selector \o attribute \o property \o scale
                            \o cross \o lowSpecificity)

NextUtility == UtilitySeedStep \/ UtilityExpandStep

SpecUtility == InitUtility /\ [][NextUtility]_vars

(***************************************************************************)
(* Properties of the utility expander (SpecUtility)                        *)
(***************************************************************************)

\* The directive last processed has the key with this word as its value.
DirectiveSets(key, word) ==
    \E i \in 1..(Len(last.params) - 1) :
        /\ last.params[i] = Word(<<key>>)
        /\ last.params[i + 1] = Word(<<word>>)

\* The low-specificity flag the claim expects for the last utility.
ExpectedLowSpecificity ==
    IF DirectiveSets("lowSpecificity", "true") THEN TRUE
    ELSE IF DirectiveSets("lowSpecificity", "false") THEN FALSE
    ELSE config.lowSpecificity

\* The last utility succeeded in class mode with the selector .gap
PlainClassUtility ==
    /\ last.op = "utility"
    /\ last.result.ok
    /\ last.utilityParams.attribute.isNull
    /\ last.utilityParams.selector = Val(<<".", "gap">>)

\* C12: the low-specificity flag of a utility is the directive's own value
\* when it sets one, and the run-level option otherwise; the selectors are
\* wrapped in :where() exactly when that flag is true.
C12_LowSpecificityResolution ==
    /\ last.op = "utility" =>
            last.utilityParams.lowSpecificity = Val(ExpectedLowSpecificity)
    /\ PlainClassUtility =>
            \A k \in 1..Len(last.result.value) :
                last.result.value[k].selector =
                    IF ExpectedLowSpecificity
                    THEN ":where(.gap-" \o Str(scaleItems(last.utilityParams,
                                scales[UtilityScale])[k].label) \o ")"
                    ELSE ".gap-" \o Str(scaleItems(last.utilityParams,
                                scales[UtilityScale])[k].label)

\* Under a run-level lowSpecificity: true, a utility with lowSpecificity:
\* false has generated a selector that is not wrapped.
C12_Witness ==
    /\ PlainClassUtility
    /\ config.lowSpecificity
    /\ DirectiveSets("lowSpecificity", "false")
    /\ Len(last.result.value) > 0
    /\ last.result.value[1].selector = ".gap-xs"

\* The six checks of a utility, in the order of the claim: whether each
\* fails on the parameters of the last utility.
UtilityChecks ==
    <<~last.utilityParams.attribute.isNull
        /\ last.utilityParams.attribute.v = <<>>,
      ~last.utilityParams.attribute.isNull
        /\ \E i \in 1..Len(last.utilityParams.attribute.v) :
            last.utilityParams.attribute.v[i] \in NonWordChars,
      (last.utilityParams.selector.isNull
            \/ last.utilityParams.selector.v = <<>>)
        /\ last.utilityParams.attribute.isNull,
      last.utilityParams.property.isNull
        \/ last.utilityParams.property.v = PropString(<<>>),
      last.utilityParams.scale.isNull \/ last.utilityParams.scale.v = <<>>,
      ~last.utilityParams.scale.isNull
        /\ Str(last.utilityParams.scale.v) \notin DOMAIN scales>>

\* The messages of the first five checks.
UtilityErrors ==
    <<"[postcss-ruler] @ruler utility() attribute parameter cannot be empty",
      "[postcss-ruler] @ruler utility() attribute parameter must contain only letters, numbers, hyphens, and underscores",
      "[postcss-ruler] @ruler utility() requires either \"selector\" or \"attribute\" parameter",
      "[postcss-ruler] @ruler utility() requires a \"property\" parameter",
      "[postcss-ruler] @ruler utility() requires a \"scale\" parameter">>

\* The first check that fails, 0 when none does.
FirstFailingCheck ==
    IF \A k \in 1..6 : ~UtilityChecks[k] THEN 0
    ELSE CHOOSE k \in 1..6 :
            UtilityChecks[k] /\ \A m \in 1..(k - 1) : ~UtilityChecks[m]

\* C13: a utility fails exactly when one of the six checks fails, and the one
\* error it reports is that of the first failing check in the order: empty
\* attribute, invalid attribute, neither selector nor attribute, property
\* missing, scale missing, scale not registered (the "not found" message,
\* for every scale name that Object.prototype does not supply).
C13_FirstFailingCheckWins ==
    last.op = "utility" =>
        /\ last.result.ok <=> FirstFailingCheck = 0
        /\ last.result.ok <=> ~aborted
        /\ FirstFailingCheck \in 1..5 =>
                last.result = Throw(UtilityErrors[FirstFailingCheck])
        /\ (FirstFailingCheck = 6 /\ UtilityScale \notin ObjectPrototypeKeys) =>
                last.result = Throw(NotFoundError(UtilityScale))

\* A utility with an empty attribute, no property and an unknown scale has
\* reported the empty attribute.
C13_Witness ==
    /\ last.op = "utility"
    /\ UtilityChecks[1] /\ UtilityChecks[4] /\ UtilityChecks[6]
    /\ last.result = Throw("[postcss-ruler] @ruler utility() attribute parameter cannot be empty")

\* The entries the last utility expands: every entry of the scale, or the
\* entries without a hyphen in the label when the directive says
\* generateAllCrossPairs: false.
SelectedEntries ==
    IF DirectiveSets("generateAllCrossPairs", "false")
    THEN Unhyphenated(scales[UtilityScale])
    ELSE scales[UtilityScale]

\* The selector pattern of the last utility ends in " &".
ParentContext ==
    /\ Len(last.utilityParams.selector.v) >= 2
    /\ SubSeq(last.utilityParams.selector.v,
              Len(last.utilityParams.selector.v) - 1,
              Len(last.utilityParams.selector.v)) = <<" ", "&">>

\* The class-mode selector of the claim for the label L.
ClassSelector(L) ==
    IF ~ExpectedLowSpecificity
    THEN Str(last.utilityParams.selector.v) \o "-" \o Str(L)
    ELSE IF ~ParentContext
    THEN ":where(" \o Str(last.utilityParams.selector.v) \o "-" \o Str(L) \o ")"
    ELSE Str(SubSeq(last.utilityParams.selector.v, 1,
                    Len(last.utilityParams.selector.v) - 1))
            \o ":where(&-" \o Str(L) \o ")"

\* C14: without an attribute, the rule of each selected entry has the entry's
\* rendered literal as the value of its declarations, and as selector
\* <selector>-L when low specificity is off, :where(<selector>-L) when it is
\* on and the pattern does not end in " &", and <pattern without the final
\* &>:where(&-L) when it is on and the pattern ends in " &".
C14_ClassModeRules ==
    (/\ last.op = "utility"
     /\ last.result.ok
     /\ last.utilityParams.attribute.isNull) =>
        /\ Len(last.result.value) = Len(SelectedEntries)
        /\ \A k \in 1..Len(SelectedEntries) :
            /\ last.result.value[k].selector = ClassSelector(SelectedEntries[k].label)
            /\ \A d \in 1..Len(last.result.value[k].decls) :
                last.result.value[k].decls[d].value = SelectedEntries[k].clamp

\* A low-specificity utility with the pattern ".container &" has generated
\* the rule of the entry xs.
C14_Witness ==
    /\ last.op = "utility"
    /\ last.result.ok
    /\ last.utilityParams.attribute.isNull
    /\ ParentContext
    /\ ExpectedLowSpecificity
    /\ last.result.value[1].selector = ".container :where(&-xs)"
    /\ last.result.value[1].decls[1].value
        = "clamp(0.5rem, 0.5556vw + 0.3889rem, 1rem)"

\* The attribute-mode selector of the claim for the label L.
AttributeSelector(L) ==
    LET base == (IF last.utilityParams.selector.isNull
                 THEN ""
                 ELSE Str(last.utilityParams.selector.v))
                    \o "[" \o Str(last.utilityParams.attribute.v) \o "=\""
                    \o Str(L) \o "\"]"
    IN  IF ExpectedLowSpecificity THEN ":where(" \o base \o ")" ELSE base

\* C15: with an attribute, the rule of each selected entry has the selector
\* <selector>[<attribute>="L"] (the selector part empty when there is none),
\* wrapped in :where() when low specificity is on, and every declaration has
\* the value var(--<scale>-L), for entries of equal sizes too.
C15_AttributeModeRules ==
    (/\ last.op = "utility"
     /\ last.result.ok
     /\ ~last.utilityParams.attribute.isNull) =>
        /\ Len(last.result.value) = Len(SelectedEntries)
        /\ \A k \in 1..Len(SelectedEntries) :
            /\ last.result.value[k].selector
                = AttributeSelector(SelectedEntries[k].label)
            /\ \A d \in 1..Len(last.result.value[k].decls) :
                last.result.value[k].decls[d].value
                    = "var(--" \o UtilityScale \o "-"
                        \o Str(SelectedEntries[k].label) \o ")"

\* An attribute utility without selector has generated the rule of a pair of
\* equal sizes: a variable reference, not the rem length.
C15_Witness ==
    /\ last.op = "utility"
    /\ last.result.ok
    /\ last.utilityParams.selector.isNull
    /\ ~ExpectedLowSpecificity
    /\ Len(last.result.value) = 2
    /\ scales["space"][2].clamp = "1rem"
    /\ last.result.value[2].selector = "[data-gap=\"flat\"]"
    /\ last.result.value[2].decls[1].value = "var(--space-flat)"

\* The property names of the directive last processed, as the claim counts
\* them: the one name, or the names of the list.
PropertyNames ==
    IF last.utilityParams.property.v.isArray
    THEN [k \in 1..Len(last.utilityParams.property.v.items) |->
            Str(last.utilityParams.property.v.items[k])]
    ELSE <<Str(last.utilityParams.property.v.s)>>

\* C16: a successful utility is replaced by one rule per selected entry, in
\* registry order, and each rule has one declaration per property name, in
\* the order of the names, all with the same value.
C16_RulesAndDeclarations ==
    (last.op = "utility" /\ last.result.ok) =>
        /\ Len(last.result.value) = Len(SelectedEntries)
        /\ \A k \in 1..Len(SelectedEntries) :
            /\ last.result.value[k].selector
                = IF last.utilityParams.attribute.isNull
                  THEN ClassSelector(SelectedEntries[k].label)
                  ELSE AttributeSelector(SelectedEntries[k].label)
            /\ Len(last.result.value[k].decls) = Len(PropertyNames)
            /\ \A d \in 1..Len(PropertyNames) :
                /\ last.result.value[k].decls[d].prop = PropertyNames[d]
                /\ last.result.value[k].decls[d].value
                    = last.result.value[k].decls[1].value

\* A utility with two property names has expanded a scale of three entries.
C16_Witness ==
    /\ last.op = "utility"
    /\ last.result.ok
    /\ Len(last.result.value) = 3
    /\ Len(last.result.value[3].decls) = 2
    /\ last.result.value[3].decls[1].prop = "margin-top"
    /\ last.result.value[3].decls[2].prop = "margin-bottom"

\* The directive last processed holds these tokens in a row.
DirectiveHolds(tokens) ==
    \E i \in 1..(Len(last.params) - Len(tokens) + 1) :
        SubSeq(last.params, i, i + Len(tokens) - 1) = tokens

\* The property of the directive last processed is left out, is the empty
\* string, or is a list without names, written [ ] or [].
PropertyMissingOrEmpty ==
    \/ ~DirectiveHolds(<<Word(<<"property">>)>>)
    \/ DirectiveHolds(KeyString("property", <<>>))
    \/ DirectiveHolds(<<Word(<<"property">>), Word(<<"[">>), Word(<<"]">>)>>)
    \/ DirectiveHolds(KeyWord("property", <<"[", "]">>))

\* C21: a utility whose property is missing or empty (no key, an empty
\* string, an empty list), and whose attribute and selector pass their
\* checks, fails with the error 'requires a "property" parameter' and
\* generates no rules.
C21_EmptyPropertyIsAnError ==
    (/\ last.op = "utility"
     /\ PropertyMissingOrEmpty
     /\ \A k \in 1..3 : ~UtilityChecks[k]) =>
        /\ last.result = Throw(UtilityErrors[4])
        /\ aborted

(***************************************************************************)
(* SpecDecl: the declaration rewriter over the values made of up to        *)
(* MaxChunks pieces, each an inline call or the text between two calls.    *)
(***************************************************************************)

MaxChunks == 3

MaxVisits == 3

\* The pieces: plain text, calls of different and of equal sizes, the same
\* call written with spaces, calls that fail (for their sizes, for a
\* missing size and for their widths), and a call without arguments, which
\* the pattern does not match.
DeclChunks ==
    {Text(" "), Text("solid "),
     Fluid2(16, 24), Fluid2(8, 16), Fluid2(16, 16),
     Call(<<<<"1", "6">>, <<" ", "2", "4", " ">>>>),
     Fluid2(24, 16), Fluid2(0, 16), Fluid4(16, 24, 1760, 320),
     Text("ruler.fluid()")}

DeclInputs == UNION {[1..n -> DeclChunks] : n \in 0..MaxChunks}

DeclRewriteStep ==
    /\ last.op = "none"
    /\ \E value \in DeclInputs : Declaration(value)

\* The host visits a declaration again when the visitor has changed it.
DeclRevisitStep ==
    /\ last.op = "decl"
    /\ last.written
    /\ last.visits < MaxVisits
    /\ Revisit

NextDecl == DeclRewriteStep \/ DeclRevisitStep

SpecDecl == InitClamp /\ [][NextDecl]_vars

(***************************************************************************)
(* Properties of the declaration rewriter (SpecDecl)                       *)
(***************************************************************************)

RECURSIVE SubstitutedValue(_)
\* The value with every inline call replaced by the result of its own
\* arguments and every other piece kept.
SubstitutedValue(chunks) ==
    IF chunks = <<>> THEN ""
    ELSE (IF Head(chunks).call
          THEN fluidCall(Head(chunks).args, config).value
          ELSE Head(chunks).text)
            \o SubstitutedValue(Tail(chunks))

\* The number of inline calls in a value.
Occurrences(chunks) == Cardinality({k \in 1..Len(chunks) : chunks[k].call})

\* C17: when every inline call of a declaration value evaluates without
\* error, the value afterwards is the original with each call replaced, in
\* place, by the result of its own arguments and everything else unchanged,
\* also when calls have the same text; the value is assigned only when it
\* holds at least one call.
C17_EachCallReplacedInPlace ==
    (last.op = "decl" /\ last.result.ok) =>
        /\ last.value = SubstitutedValue(last.input)
        /\ last.written <=> Occurrences(last.input) > 0
        /\ Occurrences(last.input) = 0 => last.value = ValueStr(last.input)
        /\ (/\ last.input = <<Fluid2(16, 24), Text(" "), Fluid2(16, 24)>>
            /\ config.minWidth = 320) =>
                last.value = "clamp(1rem, 0.5556vw + 0.8889rem, 1.5rem) clamp(1rem, 0.5556vw + 0.8889rem, 1.5rem)"

\* A value with the same call at both ends and another call between them
\* has been rewritten.
C17_Witness ==
    /\ last.op = "decl"
    /\ last.result.ok
    /\ last.written
    /\ last.input = <<Fluid2(16, 24), Fluid2(16, 16), Fluid2(16, 24)>>
    /\ config.minWidth = 320
    /\ last.value = "clamp(1rem, 0.5556vw + 0.8889rem, 1.5rem)1remclamp(1rem, 0.5556vw + 0.8889rem, 1.5rem)"

\* The inline calls of the value last visited that fail on their own.
FailingCalls ==
    {k \in 1..Len(last.input) :
        last.input[k].call /\ ~fluidCall(last.input[k].args, config).ok}

\* C27: a declaration visit fails exactly when one of the inline calls of
\* the value fails, with the error of the first of them, and then the
\* declaration keeps the value it had before the visit, whatever the calls
\* before the failing one computed; nothing is written.
C27_FailureLeavesValue ==
    last.op = "decl" =>
        /\ last.result.ok <=> FailingCalls = {}
        /\ ~last.result.ok =>
            /\ last.value = ValueStr(last.input)
            /\ ~last.written
            /\ aborted
            /\ \E k \in FailingCalls :
                /\ \A m \in FailingCalls : k <= m
                /\ last.result = fluidCall(last.input[k].args, config)

\* A value whose first call computes and whose second call fails has been
\* left as it was.
C27_Witness ==
    /\ last.op = "decl"
    /\ last.input = <<Fluid2(16, 24), Text(" "), Fluid4(16, 24, 1760, 320)>>
    /\ ~last.result.ok
    /\ ~last.written
    /\ last.value = "ruler.fluid(16,24) ruler.fluid(16,24,1760,320)"

\* C28: a visit that has rewritten a declaration leaves no inline call in
\* its value, so the host's next visit of the declaration succeeds, writes
\* nothing and leaves the value as it is (rewriting the rewritten value
\* gives the rewritten value), and no third visit follows.
C28_RewriteIsAFixpoint ==
    last.op = "decl" =>
        /\ last.visits <= 2
        /\ last.result.ok => Occurrences(last.chunks) = 0
        /\ last.visits = 2 =>
            /\ last.result.ok
            /\ ~last.written
            /\ last.value = ValueStr(last.input)
            /\ last.chunks = last.input

\* A value of two calls around a call without arguments has been rewritten
\* and visited again.
C28_Witness ==
    /\ last.op = "decl"
    /\ last.visits = 2
    /\ config.minWidth = 320
    /\ last.value
        = "clamp(1rem, 0.5556vw + 0.8889rem, 1.5rem)ruler.fluid()1rem"
    /\ ~last.written

(***************************************************************************)
(* SpecExtract: the extraction of a scale directive over the pairs blocks  *)
(* of up to MaxBlocks entries, each a name (of letters or of digits)       *)
(* followed by one, two or three numbers, and over directives without a    *)
(* pairs key; on an empty registry or after the scale xs, sm.              *)
(***************************************************************************)

MaxBlocks == 3

ExtractNames == {<<"sm">>, <<"2">>, <<"1", "0">>}

NumberRuns == {<<8>>, <<8, 16>>, <<16, 24, 8>>}

\* [n1, n2, ...] as the value parser cuts it: the brackets stick to the
\* first and the last number.
NumbersTokens(run) ==
    [k \in 1..Len(run) |->
        Word((IF k = 1 THEN <<"[">> ELSE <<>>) \o NatLex(run[k])
                \o (IF k = Len(run) THEN <<"]">> ELSE <<>>))]

RECURSIVE BlocksTokens(_)
\* The tokens of the entries of a pairs block; an entry is <<name, run>>.
BlocksTokens(blocks) ==
    IF blocks = <<>> THEN <<>>
    ELSE <<String(blocks[1][1])>> \o NumbersTokens(blocks[1][2])
            \o BlocksTokens(Tail(blocks))

ExtractBlocks ==
    UNION {[1..n -> ExtractNames \X NumberRuns] : n \in 0..MaxBlocks}

ExtractDirectives ==
    {<<Word(<<"pairs">>)>> \o BlocksTokens(blocks) : blocks \in ExtractBlocks}
    \cup {GapPrefix, CrossTrue \o GapPrefix}

ExtractSeed == ScaleParams(<<>>, DefaultPrefix, DefaultCross, XsSm)

ExtractSeedStep ==
    /\ last.op = "none"
    /\ ScaleAtRule(ExtractSeed)

ExtractStep ==
    /\ \/ last.op = "none"
       \/ last.op = "scale" /\ last.params = ExtractSeed
    /\ \E params \in ExtractDirectives : ScaleAtRule(params)

NextExtract == ExtractSeedStep \/ ExtractStep

SpecExtract == InitClamp /\ [][NextExtract]_vars

(***************************************************************************)
(* Properties of the extraction (SpecExtract)                              *)
(***************************************************************************)

\* The position of the pairs key in the directive last processed, 0 when
\* it has none.
PairsKey ==
    IF \A i \in 1..Len(last.params) : last.params[i] # Word(<<"pairs">>)
    THEN 0
    ELSE CHOOSE i \in 1..Len(last.params) :
            /\ last.params[i] = Word(<<"pairs">>)
            /\ \A k \in 1..(i - 1) : last.params[k] # Word(<<"pairs">>)

\* The token at position i is a number, brackets aside.
NumericToken(i) ==
    /\ last.params[i].type = "word"
    /\ AllDigits(RemoveAll(last.params[i].value, {"[", "]"}))

\* The number of numeric tokens that follow the name at position i before
\* the next string token.
NumbersAfter(i) ==
    Cardinality({k \in (i + 1)..Len(last.params) :
        /\ NumericToken(k)
        /\ \A m \in (i + 1)..k : last.params[m].type # "string"})

\* The positions of the names, after the pairs key, that are followed by at
\* least two numeric tokens.
PairPositions ==
    IF PairsKey = 0 THEN {}
    ELSE {i \in (PairsKey + 1)..Len(last.params) :
            last.params[i].type = "string" /\ NumbersAfter(i) >= 2}

NoPairs == "[postcss-ruler] No pairs defined in @ruler scale()"

\* The registry is empty or holds the scale xs, sm alone.
RegistryAsSeeded ==
    /\ DOMAIN scales \subseteq {"space"}
    /\ "space" \in DOMAIN scales =>
            [k \in 1..Len(scales["space"]) |-> scales["space"][k].label]
                = <<<<"xs">>, <<"sm">>>>

\* C18: a scale directive without pairs key, or in which no name is followed
\* by two numeric tokens, fails with "No pairs defined in @ruler scale()",
\* emits nothing and leaves the registry as it was; a directive with such a
\* name does not fail this way.
C18_NoPairsIsAnError ==
    last.op = "scale" =>
        IF PairPositions = {}
        THEN /\ last.result = Throw(NoPairs)
             /\ aborted
             /\ RegistryAsSeeded
        ELSE last.result # Throw(NoPairs)

\* After the scale xs, sm a directive whose only name has a single number
\* has failed, and the registry still holds xs, sm.
C18_Witness ==
    /\ last.op = "scale"
    /\ PairsKey # 0
    /\ Len(last.params) = 3
    /\ PairPositions = {}
    /\ last.result = Throw(NoPairs)
    /\ "space" \in DOMAIN scales

\* The positions at which a pair name is defined for the first time.
FirstDefinitions ==
    {i \in PairPositions :
        \A k \in PairPositions :
            k < i => last.params[k].value # last.params[i].value}

\* The n-th of these positions.
NthDefinition(n) ==
    CHOOSE i \in FirstDefinitions :
        Cardinality({k \in FirstDefinitions : k < i}) = n - 1

\* C20: the base entries of a compiled scale are labelled with the distinct
\* pair names in the order of their first definition in the directive, names
\* made of digits included.
C20_EntriesInDefinitionOrder ==
    (last.op = "scale" /\ last.params # ExtractSeed /\ last.result.ok) =>
        /\ Len(scales["space"]) = Cardinality(FirstDefinitions)
        /\ \A n \in 1..Len(scales["space"]) :
            scales["space"][n].label = last.params[NthDefinition(n)].value

(***************************************************************************)
(* SpecInline: one inline call of up to MaxArgs arguments, each written as *)
(* a number, as 0, as a word, or left blank.                               *)
(***************************************************************************)

MaxArgs == 4

\* What stands in the place of a size / of a width.
SizeTexts ==
    {<<"1", "6">>, <<"2", "4">>, <<"-", "8">>, <<"0">>, <<"a", "b", "c">>,
     <<" ">>}

WidthTexts ==
    {<<"3", "2", "0">>, <<"1", "7", "6", "0">>, <<"0">>, <<"a", "b", "c">>,
     <<" ">>}

InlineArgs ==
    UNION {{args \in [1..n -> SizeTexts \cup WidthTexts] :
                \A k \in 1..n : args[k] \in IF k <= 2 THEN SizeTexts
                                        ELSE WidthTexts} :
            n \in 1..MaxArgs}

InlineArgsStep ==
    /\ last.op = "none"
    /\ \E args \in InlineArgs : Declaration(<<Call(args)>>)

NextInline == InlineArgsStep

SpecInline == InitClamp /\ [][NextInline]_vars

(***************************************************************************)
(* Properties of the inline call (SpecInline)                              *)
(***************************************************************************)

\* The arguments of the inline call last visited.
LastArgs == last.input[1].args

\* How the k-th argument is written: left out or blank, a word that is not
\* a number, the number 0, or another number.
ArgumentKind(k) ==
    IF k > Len(LastArgs) THEN "missing"
    ELSE IF \A i \in 1..Len(LastArgs[k]) : LastArgs[k][i] = " " THEN "missing"
    ELSE IF \E i \in 1..Len(LastArgs[k]) : LastArgs[k][i] \notin Digits \cup {"-"}
        THEN "non-numeric"
    ELSE IF \A i \in 1..Len(LastArgs[k]) : LastArgs[k][i] = "0" THEN "zero"
    ELSE "number"

\* The number written as the k-th argument.
ArgumentValue(k) ==
    IF Head(LastArgs[k]) = "-" THEN -DecimalVal(Tail(LastArgs[k]), 0)
    ELSE DecimalVal(LastArgs[k], 0)

\* The width the call is evaluated with: the k-th argument when it is a
\* number other than 0, the run's otherwise.
WidthUsed(k, default) ==
    IF ArgumentKind(k) = "number" THEN ArgumentValue(k) ELSE default

\* C22: an inline call fails with "ruler.fluid() requires minSize and
\* maxSize" exactly when its first or second argument is missing, not a
\* number, or 0, whatever the other arguments (also when the sizes or the
\* widths given would be rejected by the calculation); otherwise its result
\* is that of calculateClamp on the two sizes with each width that is
\* missing, not a number or 0 replaced by the run's.
C22_SizesRequiredWidthsDefaulted ==
    last.op = "decl" =>
        IF ArgumentKind(1) # "number" \/ ArgumentKind(2) # "number"
        THEN /\ last.result = Throw(MissingSizes)
             /\ aborted
        ELSE /\ last.result # Throw(MissingSizes)
             /\ \E c \in {calculateClamp(ArgumentValue(1), ArgumentValue(2),
                                         WidthUsed(3, config.minWidth),
                                         WidthUsed(4, config.maxWidth))} :
                    IF c.ok THEN last.result = Ok(c.value) ELSE last.result = c

\* The call ruler.fluid(24,0,1760,320), whose sizes and widths are reversed,
\* has failed for its missing size.
C22_Witness ==
    /\ last.op = "decl"
    /\ LastArgs = <<<<"2", "4">>, <<"0">>, <<"1", "7", "6", "0">>,
                    <<"3", "2", "0">>>>
    /\ last.result = Throw(MissingSizes)

\* The position of the n-th numeric token after position i.
NumberPosition(i, n) ==
    CHOOSE k \in (i + 1)..Len(last.params) :
        /\ NumericToken(k)
        /\ Cardinality({m \in (i + 1)..k : NumericToken(m)}) = n

\* The number written in the token at position k.
TokenNumber(k) == DecimalVal(RemoveAll(last.params[k].value, {"[", "]"}), 0)

\* The position at which the pair of this name is defined for the last time.
LastDefinition(name) ==
    CHOOSE i \in PairPositions :
        /\ last.params[i].value = name
        /\ \A k \in PairPositions : last.params[k].value = name => k <= i

\* C23: a name followed by m numeric tokens before the next string token
\* contributes a pair iff m >= 2: the labels of the compiled scale are the
\* names with at least two numbers, the entry of each is rendered from the
\* first two numbers of its (latest) definition, whatever follows them, and
\* a name with fewer numbers raises no error (the directive fails, with "No
\* pairs defined", only when no name contributes a pair).
C23_FirstTwoNumbersMakeThePair ==
    (last.op = "scale" /\ last.params # ExtractSeed) =>
        /\ last.result.ok <=> PairPositions # {}
        /\ ~last.result.ok => last.result = Throw(NoPairs)
        /\ last.result.ok =>
            /\ {scales["space"][n].label : n \in 1..Len(scales["space"])}
                = {last.params[i].value : i \in PairPositions}
            /\ \A n \in 1..Len(scales["space"]) :
                \E i \in {LastDefinition(scales["space"][n].label)} :
                    /\ Ok(scales["space"][n].clamp)
                        = calculateClamp(TokenNumber(NumberPosition(i, 1)),
                                         TokenNumber(NumberPosition(i, 2)),
                                         last.clampsParams.minWidth,
                                         last.clampsParams.maxWidth)
                    /\ last.result.value[n].value = scales["space"][n].clamp

\* A directive with a name of one number, a name of three numbers and a
\* name of two has compiled the two pairs, the first from 16 and 24.
C23_Witness ==
    /\ last.op = "scale"
    /\ last.result.ok
    /\ last.params
        = <<Word(<<"pairs">>)>>
            \o BlocksTokens(<<<<<<"sm">>, <<8>>>>,
                              <<<<"1", "0">>, <<16, 24, 8>>>>,
                              <<<<"2">>, <<8, 16>>>>>>)
    /\ Len(scales["space"]) = 2
    /\ scales["space"][2].label = <<"1", "0">>
    /\ Ok(scales["space"][2].clamp)
        = calculateClamp(16, 24, config.minWidth, config.maxWidth)

(***************************************************************************)
(* SpecKeys: the two key/value passes over every sequence of up to         *)
(* MaxTokens tokens drawn from keys, unknown words and values, among them  *)
(* values that spell a key and keys in the last position.                  *)
(***************************************************************************)

MaxTokens == 4

ScaleTokens ==
    {Word(<<"minWidth">>), Word(<<"maxWidth">>), Word(<<"prefix">>),
     Word(<<"generateAllCrossPairs">>), Word(<<"unknown">>),
     Word(<<"3", "7", "5">>), Word(<<"true">>),
     String(<<"gap">>), String(<<"minWidth">>)}

UtilityTokens ==
    {Word(<<"selector">>), Word(<<"scale">>), Word(<<"property">>),
     Word(<<"lowSpecificity">>), Word(<<"unknown">>), Word(<<"true">>),
     String(<<".", "gap">>), String(<<"scale">>), String(<<"space">>)}

TokenRuns(tokens) == UNION {[1..n -> tokens] : n \in 0..MaxTokens}

\* The directive the utilities of SpecKeys follow.
KeysSeed == PairsBlock(XsSm)

KeysScaleStep ==
    /\ last.op = "none"
    /\ \E run \in TokenRuns(ScaleTokens) : ScaleAtRule(KeysSeed \o run)

KeysUtilityStep ==
    /\ \/ last.op = "none"
       \/ last.op = "scale" /\ last.params = KeysSeed
    /\ \E run \in TokenRuns(UtilityTokens) : UtilityAtRule(run)

NextKeys == KeysScaleStep \/ KeysUtilityStep

SpecKeys == InitClamp /\ [][NextKeys]_vars

(***************************************************************************)
(* Properties of the key/value passes (SpecKeys)                           *)
(***************************************************************************)

ScaleKeys ==
    {<<"minWidth">>, <<"maxWidth">>, <<"prefix">>, <<"generateAllCrossPairs">>}

UtilityKeys ==
    {<<"selector">>, <<"scale">>, <<"attribute">>, <<"property">>,
     <<"generateAllCrossPairs">>, <<"lowSpecificity">>}

\* The keys of the pass that read the directive last processed.
PassKeys == IF last.op = "scale" THEN ScaleKeys ELSE UtilityKeys

RECURSIVE ReadAsValue(_)
\* The token at position i is the value of a key: the token before it
\* spells a key of the pass and is not itself the value of a key.
ReadAsValue(i) ==
    /\ i > 1
    /\ last.params[i - 1].value \in PassKeys
    /\ ~ReadAsValue(i - 1)

\* The positions at which the key stands with a value after it.
SettingsOf(key) ==
    {i \in 1..(Len(last.params) - 1) :
        last.params[i].value = key /\ ~ReadAsValue(i)}

\* The text of the value the key is last given, Null when it is given none.
Setting(key) ==
    IF SettingsOf(key) = {} THEN Null
    ELSE Val(last.params[1 + CHOOSE i \in SettingsOf(key) :
                                \A k \in SettingsOf(key) : k <= i].value)

\* Number(text) for a word without sign.
NumberOf(text) == IF AllDigits(text) THEN DecimalVal(text, 0) ELSE NaN

\* C24: in both passes each field is what the last key/value pair of its
\* key says, where a token spelling a key counts as a key only if it is not
\* the value of the key before it and has a token after it, and is the
\* default when there is no such pair; every other token changes no field
\* and raises no error (a scale fails only on the widths it was given, a
\* utility only in its validation or for its unknown scale).
C24_KeysAndValues ==
    /\ last.op = "scale" =>
        /\ last.clampsParams.prefix
            = IF Setting(<<"prefix">>).isNull THEN <<"space">>
              ELSE Setting(<<"prefix">>).v
        /\ last.clampsParams.minWidth
            = IF Setting(<<"minWidth">>).isNull THEN config.minWidth
              ELSE NumberOf(Setting(<<"minWidth">>).v)
        /\ last.clampsParams.maxWidth
            = IF Setting(<<"maxWidth">>).isNull THEN config.maxWidth
              ELSE NumberOf(Setting(<<"maxWidth">>).v)
        /\ last.clampsParams.generateAllCrossPairs
            = IF Setting(<<"generateAllCrossPairs">>).isNull
              THEN config.generateAllCrossPairs
              ELSE Setting(<<"generateAllCrossPairs">>).v = <<"true">>
        /\ ~last.result.ok =>
                last.result = Throw(InvalidWidth(last.clampsParams.minWidth,
                                                 last.clampsParams.maxWidth))
        /\ last.params = KeysSeed \o KeyString("prefix", <<"minWidth">>) =>
                /\ last.clampsParams.prefix = <<"minWidth">>
                /\ last.clampsParams.minWidth = config.minWidth
        /\ last.params = KeysSeed \o <<Word(<<"maxWidth">>)>> =>
                last.clampsParams.maxWidth = config.maxWidth
    /\ last.op = "utility" =>
        /\ last.utilityParams.selector = Setting(<<"selector">>)
        /\ last.utilityParams.scale = Setting(<<"scale">>)
        /\ last.utilityParams.property
            = IF Setting(<<"property">>).isNull THEN Null
              ELSE Val(PropString(Setting(<<"property">>).v))
        /\ last.utilityParams.lowSpecificity
            = IF Setting(<<"lowSpecificity">>).isNull
              THEN Val(config.lowSpecificity)
              ELSE Val(Setting(<<"lowSpecificity">>).v = <<"true">>)
        /\ last.utilityParams.attribute = Null
        /\ last.utilityParams.generateAllCrossPairs = Null
        /\ ~last.result.ok =>
                \/ \E k \in 3..5 : last.result = Throw(UtilityErrors[k])
                \/ last.result = Throw(NotFoundError(UtilityScale))
        /\ last.params = KeyString("selector", <<"scale">>)
                            \o <<String(<<"space">>)>> =>
                /\ last.utilityParams.selector = Val(<<"scale">>)
                /\ last.utilityParams.scale = Null

\* A scale directive with prefix: 'minWidth', a stray number and a last
\* token minWidth has compiled under the prefix minWidth and the run's
\* widths.
C24_Witness ==
    /\ last.op = "scale"
    /\ last.params = KeysSeed \o <<Word(<<"prefix">>), String(<<"minWidth">>),
                                   Word(<<"3", "7", "5">>), Word(<<"minWidth">>)>>
    /\ last.result.ok
    /\ last.clampsParams.prefix = <<"minWidth">>
    /\ last.clampsParams.minWidth = config.minWidth
    /\ "minWidth" \in DOMAIN scales

(***************************************************************************)
(* SpecRem: pxToRem over the whole and half pixels up to MaxPx, either     *)
(* sign, and over the sizes 16 * m * 10^e from 10^21 rem up to             *)
(* 10^MaxExponent rem.                                                     *)
(***************************************************************************)

MaxPx == 48

MaxExponent == 23

\* pxToRem(num / den)
PxToRem(num, den) ==
    /\ last' = [op |-> "rem", large |-> FALSE, num |-> num, den |-> den,
                result |-> pxToRemQ(num, den)]
    /\ UNCHANGED <<config, scales, aborted, defined>>

\* pxToRem(sign * 16 * m * 10^e)
PxToRemLarge(sign, m, e) ==
    /\ last' = [op |-> "rem", large |-> TRUE, sign |-> sign, m |-> m, e |-> e,
                result |-> pxToRemLarge(sign, m, e)]
    /\ UNCHANGED <<config, scales, aborted, defined>>

RemStep ==
    /\ last.op = "none"
    /\ \E num \in (-2 * MaxPx)..(2 * MaxPx), den \in {1, 2} :
            PxToRem(num, den)

RemLargeStep ==
    /\ last.op = "none"
    /\ \E sign \in {-1, 1}, m \in 1..9, e \in 21..MaxExponent :
            PxToRemLarge(sign, m, e)

NextRem == RemStep \/ RemLargeStep

SpecRem == Init /\ [][NextRem]_vars

(***************************************************************************)
(* Properties of pxToRem (SpecRem)                                         *)
(***************************************************************************)

\* The integer nearest to 10^4 * num / (16 * den) for num >= 0, the larger
\* one on a tie.
RemTenThousandths(num, den) ==
    CHOOSE n \in {(10000 * num) \div (16 * den),
                  (10000 * num) \div (16 * den) + 1} :
        /\ 2 * (16 * den * n - 10000 * num) <= 16 * den
        /\ 2 * (10000 * num - 16 * den * n) < 16 * den

\* The decimal digits of n / 10^4 after the point, trailing zeros dropped,
\* with the point; nothing when there are none.
DecimalsOf(n) ==
    IF n % 10000 = 0 THEN ""
    ELSE "." \o ToString((n \div 1000) % 10)
         \o (IF n % 1000 = 0 THEN ""
             ELSE ToString((n \div 100) % 10)
                  \o (IF n % 100 = 0 THEN ""
                      ELSE ToString((n \div 10) % 10)
                           \o (IF n % 10 = 0 THEN "" ELSE ToString(n % 10))))

RECURSIVE Zeros(_)
Zeros(k) == IF k = 0 THEN "" ELSE "0" \o Zeros(k - 1)

\* px / 16 rounded to four decimals, half away from zero, in plain decimal
\* notation, followed by rem.
ExpectedRem ==
    IF last.large
    THEN (IF last.sign < 0 THEN "-" ELSE "")
            \o ToString(last.m) \o Zeros(last.e) \o "rem"
    ELSE LET n == RemTenThousandths(Abs(last.num), last.den)
         IN  (IF last.num < 0 /\ n # 0 THEN "-" ELSE "")
                \o ToString(n \div 10000) \o DecimalsOf(n) \o "rem"

\* C25: for every px, pxToRem(px) is px / 16 rounded to four decimals, half
\* away from zero, in plain decimal notation with at most four decimals, no
\* trailing zero, no trailing point, no "+" and no exponent, followed by
\* rem; pxToRem(16) is 1rem and pxToRem(20) is 1.25rem.
C25_RemFormatting ==
    last.op = "rem" =>
        /\ last.result = ExpectedRem
        /\ (~last.large /\ last.num = 16 /\ last.den = 1) =>
                last.result = "1rem"
        /\ (~last.large /\ last.num = 20 /\ last.den = 1) =>
                last.result = "1.25rem"

(***************************************************************************)
(* SpecNames: the scale compiler over the lists of up to MaxNames pairs    *)
(* named from plain and hyphenated names, with and without cross pairs,    *)
(* followed by a utility on the scale.                                     *)
(***************************************************************************)

MaxNames == 3

HyphenNames ==
    {<<"a">>, <<"b">>, <<"c">>, <<"a", "-", "b">>, <<"b", "-", "c">>}

\* The sizes of the pairs, by position.
NameSizes == <<<<8, 16>>, <<16, 24>>, <<8, 24>>, <<16, 16>>>>

NamedPairs ==
    {{[k \in 1..n |-> <<names[k], NameSizes[k][1], NameSizes[k][2]>>] :
        names \in [1..n -> HyphenNames]} : n \in 1..MaxNames}

NamesScaleStep ==
    /\ last.op = "none"
    /\ \E entries \in UNION NamedPairs, cross \in {DefaultCross, CrossTrue} :
        ScaleAtRule(ScaleParams(<<>>, DefaultPrefix, cross, entries))

NamesUtilityStep ==
    /\ last.op = "scale"
    /\ UtilityAtRule(ClassUtility(<<"space">>, DefaultCross))

NextNames == NamesScaleStep \/ NamesUtilityStep

SpecNames == InitClamp /\ [][NextNames]_vars

(***************************************************************************)
(* Properties of the labels (SpecNames)                                    *)
(***************************************************************************)

\* C29: the labels of a stored scale are pairwise distinct, and so are the
\* custom properties a scale directive emits and the selectors of the rules
\* a utility generates from the scale, whatever the pair names, hyphenated
\* names and cross pairs included.
C29_LabelsDistinct ==
    /\ \A p \in DOMAIN scales :
        \A i \in 1..Len(scales[p]), j \in 1..Len(scales[p]) :
            i # j => Str(scales[p][i].label) # Str(scales[p][j].label)
    /\ (last.op = "scale" /\ last.result.ok) =>
        \A i \in 1..Len(last.result.value), j \in 1..Len(last.result.value) :
            i # j => last.result.value[i].prop # last.result.value[j].prop
    /\ (last.op = "utility" /\ last.result.ok) =>
        \A i \in 1..Len(last.result.value), j \in 1..Len(last.result.value) :
            i # j => last.result.value[i].selector
                        # last.result.value[j].selector

(***************************************************************************)
(* SpecOrder: scale directives whose scalar keys stand before the pairs    *)
(* block, and the same directives with the scalar keys after it.           *)
(***************************************************************************)

OrderWidths == {<<>>, Widths(320, 375)}

\* The scalar keys, the widths before the prefix or after it.
OrderScalars ==
    UNION {{widths \o prefix \o cross, cross \o prefix \o widths} :
            widths \in OrderWidths, prefix \in {DefaultPrefix, GapPrefix},
            cross \in {DefaultCross, CrossTrue}}

OrderEntries ==
    {XsSm, FlatPairs, <<<<<<"xs">>, 8, 16>>>>, <<<<<<"a">>, 8, 24>>>>}

OrderBeforeStep ==
    /\ last.op = "none"
    /\ \E scalars \in OrderScalars, entries \in OrderEntries :
        ScaleAtRule(scalars \o PairsBlock(entries))

OrderAfterStep ==
    /\ last.op = "none"
    /\ \E scalars \in OrderScalars, entries \in OrderEntries :
        ScaleAtRule(PairsBlock(entries) \o scalars)

NextOrder == OrderBeforeStep \/ OrderAfterStep

SpecOrder == InitClamp /\ [][NextOrder]_vars

(***************************************************************************)
(* Properties of the key order (SpecOrder)                                 *)
(***************************************************************************)

\* The names of a pairs mapping with the two sizes of each.
NamesAndSizes(pairs) ==
    [k \in 1..Len(pairs) |->
        <<pairs[k].name, pairs[k].values[1], pairs[k].values[2]>>]

\* C30: a directive with its scalar keys after the pairs block is extracted
\* like the directive with the same keys before the block: the same pair
\* names with the same sizes, the same widths, prefix and cross-pair flag,
\* and so the same outcome.
C30_KeyOrderIrrelevant ==
    \A scalars \in OrderScalars, entries \in OrderEntries :
        (last.op = "scale" /\ last.params = PairsBlock(entries) \o scalars) =>
            /\ NamesAndSizes(last.clampsParams.pairs)
                = NamesAndSizes(extractPairs(scalars \o PairsBlock(entries)))
            /\ [last.clampsParams EXCEPT !.pairs = <<>>]
                = parseAtRuleParams(scalars \o PairsBlock(entries), config)
            /\ last.result
                = processFluidAtRule(scalars \o PairsBlock(entries),
                                     config, <<>>).result

====
